---- MODULE Spec2Model ----
(***************************************************************************)
(* State-machine model of the evidence-gathering and synthesis pipeline:   *)
(*   - SafeLLMClient.generate_structured      (src/llm_client.py)          *)
(*   - SegmentRetriever.search                (src/modules/segment_retriever.py) *)
(*   - QueryGenerator.generate_query + main   (src/modules/query_generator.py,   *)
(*                                             src/main.py)                *)
(*   - ReportGenerator.generate_report        (src/modules/report_generator.py)  *)
(*   - the compression loop of produce_run.main (src/produce_run.py)       *)
(*   - SafeLLMClient._truncate_input          (src/llm_client.py)          *)
(*   - QuestionGenerator.generate_questions   (src/modules/question_generator.py) *)
(*   - the tracking store of main             (src/main.py)                *)
(*   - the re-rank scores of search           (src/modules/segment_retriever.py) *)
(*   - ReportGenerator.chunk_input            (src/modules/report_generator.py)  *)
(*   - InformationEvaluator.clean_retrieval_data (src/modules/information_evaluator.py) *)
(* Each component has its own specification (SpecLLM, SpecSearch, SpecLoop, *)
(* SpecReport, SpecCompress, SpecTruncate, SpecQuestions, SpecStore,       *)
(* SpecRanking, SpecChunking, SpecCleaning); the variables of the other    *)
(* components stay at their initial values.                                *)
(***************************************************************************)
EXTENDS Integers, Sequences, FiniteSets, TLC

VARIABLES
    \* ---- SafeLLMClient.generate_structured ----
    gs_pc,            \* "idle" | "loop" | "returned" | "raised"
    max_retries,      \* the max_retries argument of the call
    attempt,          \* the loop variable of `for attempt in range(max_retries)`
    gs_requests,      \* number of self.model.chat generation requests issued
    gs_result,        \* "none" (nothing yet) | "instance" | "None" | "error"
    gs_log,           \* per attempt: what the service did and how it was handled
    gs_sleeps,        \* the arguments of the time.sleep calls, in order
    working_model,    \* self.working_model is set (the probe is memoized)
    \* ---- SegmentRetriever.search ----
    sr_pc,                  \* "off" | "idle" | "returned" | "raised"
    sr_hits,                \* how many lexical hits come from other documents
    sr_own,                 \* how many come from the article's own document
    exclude_docids,         \* the exclude_docids argument
    sr_curator,             \* what the curation call does: raise, or its answer
    results,                \* segment ids of the ranked candidate list, best first
    top_segment_ids,        \* ids of the candidates shown to the curator
    segment_ids,            \* the curator's answer (SelectedSegments.segment_ids)
    validated_segment_ids,  \* the ids kept after validation and fallback
    llm_selected_results,   \* segment ids of the curated subset returned
    \* ---- main: the evidence loop of one article ----
    lp_pc,                      \* "off" | "generate" | "retrieve" | "evaluate" | "done" | "crashed"
    iteration_counter,
    queries,                    \* the queries of the current round
    q_done,                     \* how many of them have been retrieved
    iteration_data,             \* the query_<i> entries of the current round
    query_retrieval_history,    \* the Retrieval History, entry n under key query_<n>
    per_article_tracking_data,  \* entry r is iteration_<r>
    lp_trace,                   \* the calls the loop made so far, in order
    lp_index,                   \* what the index and the curator answer in this run
    information_evaluation_reasoning, \* the reasoning of the last evaluation
    lp_seen,                    \* per call of the trace: what main passed to it
    after_pc,                   \* after the loop: "loop" | "prepared" | "asked" | "recorded" | "crashed"
    reorganized_query_retrieval_data,
    main_all_llm_selected_segment_ids,  \* all_llm_selected_segment_ids of main
    report_args,                \* whether generate_report was called, and its allowed set
    \* ---- ReportGenerator.generate_report ----
    rp_pc,                          \* "primary" | "chunks" | "polish" | "returned" | "raised"
    all_llm_selected_segment_ids,   \* the allowed citation ids passed in
    chunks,                         \* len(chunks) in the fallback
    chunk_i,                        \* chunks processed so far
    partial_reports,                \* the reports of the chunks that succeeded
    all_sentences,                  \* what the polishing pass was given
    final_report,                   \* the report returned
    rp_calls,                       \* the generation calls made and how each ended
    \* ---- produce_run.main: the report of one article ----
    cp_pc,            \* "start" | "loop" | "assert" | "emit" | "emitted" | "crashed"
    sentences,        \* the recorded sentences
    new_sentences,
    new_word_count,
    cp_i,             \* the loop variable of `for i in range(5)`
    cp_log,           \* the shorten_report calls made and how each ended
    responses,        \* the sentences emitted for the article
    \* ---- SafeLLMClient._truncate_input ----
    tr_pc,            \* "called" | "returned"
    messages,
    max_tokens,
    tr_attempt,       \* the attempt argument
    tr_result,        \* the list returned
    \* ---- QuestionGenerator.generate_questions ----
    qg_pc,            \* "off" | "called" | "returned" | "raised"
    qg_response,      \* what the structured call does: raise, or its questions
    generated_questions, 
    \* ---- main: the articles of one or more invocations ----
    st_pc,            \* "off" | "running" | "finished" | "crashed"
    st_run,           \* which invocation of the driver this is
    st_next,          \* the place of the next article in articles[4:]
    tracking_data,    \* the dict of this invocation: article -> entry
    persisted_store,  \* the content of tracking_data.json
    st_log,           \* per article processed: invocation, article, stage that raised
    \* ---- SegmentRetriever.search: the re-rank scores of one call ----
    rk_pc,            \* "off" | "idle" | "returned" | "raised"
    rk_hits,          \* the hits of the query: how many, and how many of the article
    rk_scores,        \* what the re-ranker will score them
    rk_curator,       \* what the curation call will do
    rk_results,       \* the ranked candidates search returned
    rk_selected,      \* the curated subset search returned
    \* ---- ReportGenerator.chunk_input ----
    ck_pc,            \* "off" | "called" | "returned"
    question_sizes,   \* len(json.dumps({q_id: q_data}, indent=2)) of each question
    base_segments_size, \* len(json.dumps(segments_dict, indent=2))
    ck_chunks,        \* the chunks chunk_input returned
    \* ---- InformationEvaluator.clean_retrieval_data ----
    cl_pc,            \* "off" | "called" | "returned"
    cl_history,       \* the Retrieval History given to clean_retrieval_data
    cl_view           \* the view it returned

gsVars == <<gs_pc, max_retries, attempt, gs_requests, gs_result, gs_log,
            gs_sleeps, working_model>>

srVars == <<sr_pc, sr_hits, sr_own, exclude_docids, sr_curator, results, top_segment_ids, segment_ids,
            validated_segment_ids, llm_selected_results>>

lpVars == <<lp_pc, iteration_counter, queries, q_done, iteration_data,
            query_retrieval_history, per_article_tracking_data, lp_trace,
            lp_index, information_evaluation_reasoning, lp_seen, after_pc,
            reorganized_query_retrieval_data,
            main_all_llm_selected_segment_ids, report_args>>

rpVars == <<rp_pc, all_llm_selected_segment_ids, chunks, chunk_i,
            partial_reports, all_sentences, final_report, rp_calls>>

cpVars == <<cp_pc, sentences, new_sentences, new_word_count, cp_i, cp_log,
            responses>>

trVars == <<tr_pc, messages, max_tokens, tr_attempt, tr_result>>

qgVars == <<qg_pc, qg_response, generated_questions>>

stVars == <<st_pc, st_run, st_next, tracking_data, persisted_store, st_log>>

rkVars == <<rk_pc, rk_hits, rk_scores, rk_curator, rk_results, rk_selected>>

ckVars == <<ck_pc, question_sizes, base_segments_size, ck_chunks>>

clVars == <<cl_pc, cl_history, cl_view>>

vars == <<gsVars, srVars, lpVars, rpVars, cpVars, trVars, qgVars, stVars, rkVars, ckVars, clVars>>

\* What each component leaves alone: the variables of the others.
notGs == <<srVars, lpVars, rpVars, cpVars, trVars, qgVars, stVars, rkVars, ckVars, clVars>>
notSr == <<gsVars, lpVars, rpVars, cpVars, trVars, qgVars, stVars, rkVars, ckVars, clVars>>
notLp == <<gsVars, srVars, rpVars, cpVars, trVars, qgVars, stVars, rkVars, ckVars, clVars>>
notRp == <<gsVars, srVars, lpVars, cpVars, trVars, qgVars, stVars, rkVars, ckVars, clVars>>
notCp == <<gsVars, srVars, lpVars, rpVars, trVars, qgVars, stVars, rkVars, ckVars, clVars>>
notTr == <<gsVars, srVars, lpVars, rpVars, cpVars, qgVars, stVars, rkVars, ckVars, clVars>>
notQg == <<gsVars, srVars, lpVars, rpVars, cpVars, trVars, stVars, rkVars, ckVars, clVars>>
notSt == <<gsVars, srVars, lpVars, rpVars, cpVars, trVars, qgVars, rkVars, ckVars, clVars>>
notRk == <<gsVars, srVars, lpVars, rpVars, cpVars, trVars, qgVars, stVars, ckVars, clVars>>
notCk == <<gsVars, srVars, lpVars, rpVars, cpVars, trVars, qgVars, stVars, rkVars, clVars>>
notCl == <<gsVars, srVars, lpVars, rpVars, cpVars, trVars, qgVars, stVars, rkVars, ckVars>>

Range(s) == {s[i] : i \in 1..Len(s)}

Min(a, b) == IF a <= b THEN a ELSE b

\* The sequences over S of length at most n.
SeqsUpTo(S, n) == UNION {[1..k -> S] : k \in 0..n}

\* Python's s[:k]
Take(s, k) == SubSeq(s, 1, Min(Len(s), k))

\* The other components at rest.
IdleLLM ==
    /\ gs_pc = "idle" /\ max_retries = 0 /\ attempt = 0 /\ gs_requests = 0
    /\ gs_result = "none" /\ gs_log = <<>> /\ gs_sleeps = <<>>
    /\ working_model = FALSE

IdleSearch ==
    /\ sr_pc = "off" /\ sr_hits = 0 /\ sr_own = 0 /\ exclude_docids = <<>>
    /\ sr_curator = [raises |-> TRUE, answer |-> <<>>]
    /\ results = <<>> /\ top_segment_ids = <<>>
    /\ segment_ids = <<>> /\ validated_segment_ids = <<>>
    /\ llm_selected_results = <<>>

IdleLoop ==
    /\ lp_pc = "off" /\ iteration_counter = 1 /\ queries = <<>>
    /\ q_done = 0 /\ iteration_data = <<>> /\ query_retrieval_history = <<>>
    /\ per_article_tracking_data = <<>> /\ lp_trace = <<>>
    /\ lp_index = [other |-> 0, own |-> 0, answer |-> <<>>]
    /\ information_evaluation_reasoning = [round |-> 0] /\ lp_seen = <<>>
    /\ after_pc = "loop" /\ reorganized_query_retrieval_data = <<>>
    /\ main_all_llm_selected_segment_ids = {}
    /\ report_args = [called |-> FALSE, allowed |-> {}]

IdleReport ==
    /\ rp_pc = "primary" /\ all_llm_selected_segment_ids = {}
    /\ chunks = 0 /\ chunk_i = 0 /\ partial_reports = <<>>
    /\ all_sentences = <<>> /\ final_report = <<>> /\ rp_calls = <<>>

IdleCompress ==
    /\ cp_pc = "start" /\ sentences = <<>> /\ new_sentences = <<>>
    /\ new_word_count = 0 /\ cp_i = 0 /\ cp_log = <<>> /\ responses = <<>>

IdleTruncate ==
    /\ tr_pc = "called" /\ messages = <<>> /\ max_tokens = 0
    /\ tr_attempt = 0 /\ tr_result = <<>>

IdleQuestions ==
    /\ qg_pc = "off" /\ qg_response = [raises |-> TRUE, questions |-> <<>>]
    /\ generated_questions = <<>>

IdleStore ==
    /\ st_pc = "off" /\ st_run = 1 /\ st_next = 1 /\ tracking_data = <<>>
    /\ persisted_store = <<>> /\ st_log = <<>>

IdleRanking ==
    /\ rk_pc = "off" /\ rk_hits = [other |-> 0, own |-> 0]
    /\ rk_scores = [a |-> 0, m |-> 1]
    /\ rk_curator = [raises |-> TRUE, answer |-> <<>>]
    /\ rk_results = <<>> /\ rk_selected = <<>>

IdleChunking ==
    /\ ck_pc = "off" /\ question_sizes = <<>> /\ base_segments_size = 0
    /\ ck_chunks = <<>>

IdleCleaning ==
    /\ cl_pc = "off" /\ cl_history = <<>> /\ cl_view = <<>>

(***************************************************************************)
(* SafeLLMClient.generate_structured                                       *)
(***************************************************************************)

\* Largest max_retries argument explored (the default in the code is 3).
MaxRetriesArg == 3

\* Failure kinds of one attempt, by the handler that deals with them.
FailureKinds == {"call", "json", "schema"}

\* `for attempt in range(max_retries)`: the loop body runs for this attempt.
InRangeOffByOne(a, mr) == a <= mr
InRange(a, mr) == a < mr

\* `if attempt == max_retries - 1` in each of the three handlers.
IsLastAttempt(a, mr) == a = mr - 1

\* time.sleep(2 ** attempt)
RECURSIVE Pow2(_)
Pow2(n) == IF n = 0 THEN 1 ELSE 2 * Pow2(n - 1)

BackoffFlat(a) == 1
Backoff(a) == Pow2(a)

InitLLM ==
    /\ gs_pc = "idle"
    /\ max_retries = 0
    /\ attempt = 0
    /\ gs_requests = 0
    /\ gs_result = "none"
    /\ gs_log = <<>>
    /\ gs_sleeps = <<>>
    /\ working_model \in BOOLEAN
    /\ IdleSearch
    /\ IdleLoop
    /\ IdleReport
    /\ IdleCompress
    /\ IdleTruncate
    /\ IdleQuestions
    /\ IdleStore
    /\ IdleRanking
    /\ IdleChunking
    /\ IdleCleaning

\* The call itself: self.model is set by the constructor (which raises
\* otherwise), so the `if not self.model` guard passes and the loop starts.
generate_structured(mr) ==
    /\ gs_pc = "idle"
    /\ gs_pc' = "loop"
    /\ max_retries' = mr
    /\ attempt' = 0
    /\ UNCHANGED <<gs_requests, gs_result, gs_log, gs_sleeps, working_model>>
    /\ UNCHANGED notGs

\* A failed attempt: the last one raises (an inner raise is caught by the
\* outer handler, which raises again), any other sleeps once and goes on.
AttemptFails(out, probed, kind) ==
    /\ gs_log' = Append(gs_log, [outcome |-> out, probed |-> probed,
                                  kind |-> kind, attempt |-> attempt])
    /\ IF IsLastAttempt(attempt, max_retries)
       THEN /\ gs_pc' = "raised"
            /\ gs_result' = "error"
            /\ UNCHANGED <<attempt, gs_sleeps>>
       ELSE /\ gs_sleeps' = Append(gs_sleeps, Backoff(attempt))
            /\ attempt' = attempt + 1
            /\ UNCHANGED <<gs_pc, gs_result>>

\* self.model.chat raises: the outer `except Exception`.
AttemptCallRaises ==
    /\ gs_pc = "loop" /\ InRange(attempt, max_retries)
    /\ gs_requests' = gs_requests + 1
    /\ AttemptFails("raise", FALSE, "call")
    /\ UNCHANGED <<max_retries, working_model>>
    /\ UNCHANGED notGs

\* An empty-content attempt that probes the model whether or not
\* working_model is set.
AttemptEmptyProbesAgain ==
    /\ gs_pc = "loop" /\ InRange(attempt, max_retries)
    /\ gs_requests' = gs_requests + 1
    /\ \/ /\ working_model' = TRUE
          /\ \E kind \in {"json", "schema"} : AttemptFails("empty", TRUE, kind)
       \/ /\ AttemptFails("empty", TRUE, "call")
          /\ UNCHANGED working_model
    /\ UNCHANGED max_retries
    /\ UNCHANGED notGs

\* Empty content: _find_working_model runs before the content is parsed.  It
\* returns at once when working_model is set, otherwise it probes the model;
\* a probe that raises lands in the outer handler.  The empty content then
\* fails json.loads, or (when the repair pass turns it into a JSON string)
\* fails schema validation.
AttemptEmpty ==
    /\ gs_pc = "loop" /\ InRange(attempt, max_retries)
    /\ gs_requests' = gs_requests + 1
    /\ IF working_model
       THEN /\ \E kind \in {"json", "schema"} : AttemptFails("empty", FALSE, kind)
            /\ UNCHANGED working_model
       ELSE \/ /\ working_model' = TRUE
               /\ \E kind \in {"json", "schema"} : AttemptFails("empty", TRUE, kind)
            \/ /\ AttemptFails("empty", TRUE, "call")
               /\ UNCHANGED working_model
    /\ UNCHANGED max_retries
    /\ UNCHANGED notGs

\* json.loads raises JSONDecodeError.
AttemptBadJson ==
    /\ gs_pc = "loop" /\ InRange(attempt, max_retries)
    /\ gs_requests' = gs_requests + 1
    /\ AttemptFails("bad_json", FALSE, "json")
    /\ UNCHANGED <<max_retries, working_model>>
    /\ UNCHANGED notGs

\* response_model.model_validate raises.
AttemptBadSchema ==
    /\ gs_pc = "loop" /\ InRange(attempt, max_retries)
    /\ gs_requests' = gs_requests + 1
    /\ AttemptFails("bad_schema", FALSE, "schema")
    /\ UNCHANGED <<max_retries, working_model>>
    /\ UNCHANGED notGs

\* `return response_model.model_validate(json_response)`
AttemptValid ==
    /\ gs_pc = "loop" /\ InRange(attempt, max_retries)
    /\ gs_requests' = gs_requests + 1
    /\ gs_log' = Append(gs_log, [outcome |-> "valid", probed |-> FALSE,
                                  kind |-> "none", attempt |-> attempt])
    /\ gs_pc' = "returned"
    /\ gs_result' = "instance"
    /\ UNCHANGED <<max_retries, attempt, gs_sleeps, working_model>>
    /\ UNCHANGED notGs

\* The for loop runs out of attempts: the function body ends without a
\* return statement, so the call returns None.
LoopExhausted ==
    /\ gs_pc = "loop" /\ ~InRange(attempt, max_retries)
    /\ gs_pc' = "returned"
    /\ gs_result' = "None"
    /\ UNCHANGED <<max_retries, attempt, gs_requests, gs_log, gs_sleeps,
                   working_model>>
    /\ UNCHANGED notGs

NextLLM ==
    \/ \E mr \in 0..MaxRetriesArg : generate_structured(mr)
    \/ AttemptCallRaises
    \/ AttemptEmpty
    \/ AttemptBadJson
    \/ AttemptBadSchema
    \/ AttemptValid
    \/ LoopExhausted

SpecLLM == InitLLM /\ [][NextLLM]_vars

\* The call is synchronous: once started it runs until it returns or raises.
SpecLLMFair == SpecLLM /\ WF_vars(NextLLM)

(***************************************************************************)
(* Claims about generate_structured                                        *)
(***************************************************************************)

GsDone == gs_pc \in {"returned", "raised"}

\* C9: for every max_retries (0 included) a call either returns a
\* schema-valid instance or raises; it never returns anything else.
C9_InstanceOrRaise ==
    GsDone => \/ gs_pc = "returned" /\ gs_result = "instance"
              \/ gs_pc = "raised" /\ gs_result = "error"

\* The call with max_retries = 0 that has returned None.
C9_ReturnedNone ==
    gs_pc = "returned" /\ gs_result = "None" /\ max_retries = 0

\* No request is issued after the first valid response: a valid response is
\* the last log entry and the call has returned the instance.
ValidEndsCall ==
    \A i \in 1..Len(gs_log) :
        gs_log[i].outcome = "valid" =>
            i = Len(gs_log) /\ gs_pc = "returned" /\ gs_result = "instance"

\* A failure with attempts remaining is followed by another attempt: the
\* call raises only when the last attempt failed, and while it is still
\* running after k failures the next attempt k is within range.
FailureRetried ==
    /\ gs_pc = "raised" =>
          /\ Len(gs_log) = max_retries
          /\ gs_log[Len(gs_log)].kind \in FailureKinds
    /\ (gs_pc = "loop" /\ gs_log # <<>>) =>
          /\ gs_log[Len(gs_log)].kind \in FailureKinds
          /\ attempt = Len(gs_log)
          /\ attempt < max_retries

\* C10: one call issues at most max_retries generation requests, none after
\* the first valid response, retries each of the three failure kinds while
\* attempts remain, and always ends by returning or raising.
C10_BoundedRetries ==
    /\ [](gs_requests <= max_retries /\ gs_requests = Len(gs_log))
    /\ []ValidEndsCall
    /\ []FailureRetried
    /\ (gs_pc = "loop") ~> GsDone

\* A call that used all three attempts, failing once in each of the three
\* ways, and raised.
C10_Witness ==
    /\ gs_pc = "raised" /\ max_retries = 3 /\ gs_requests = 3
    /\ {gs_log[i].kind : i \in 1..3} = FailureKinds

\* A call that stopped at the first valid response with attempts left.
C10_WitnessEarlyReturn ==
    /\ gs_pc = "returned" /\ max_retries = 3 /\ gs_requests = 2
    /\ gs_log[2].outcome = "valid"

(***************************************************************************)
(* SegmentRetriever.search                                                 *)
(***************************************************************************)

\* self.selector_top_k: how many re-ranked candidates the curator is shown.
selector_top_k == 10

\* results = results[:100]
RerankKeep == 100

\* "Select at most 3 segment IDs" in the curation prompt.
CuratedCap == 3

\* Largest number of hits from documents other than the article.
MaxHits == 11

\* Largest number of hits from the article's own document.
MaxOwnHits == 1

\* Longest curator answer explored where the exclusion list varies.
MaxAnswerExclusion == 2

\* Longest curator answer explored.
MaxAnswer == 4

\* Low-ranked ids the curator may name, besides the ones below.
MaxCuratorId == 3

\* Segment ids are named by their place in the re-ranked order: hit i is the
\* i-th best of the hits from other documents; the segments of the article's
\* own document are -1, -2, ... and score better than all others.  The
\* curator may answer with well-ranked ids, the last id it
\* was shown, the first id it was not shown, and 0, the id of no segment.
CuratorIds == (0..MaxCuratorId) \cup {selector_top_k, selector_top_k + 1}

CuratorAnswers == SeqsUpTo(CuratorIds, MaxAnswer)

\* The article under evaluation, article.get('docid') in main.
article_id == "article"

\* The hits of one query, by re-rank score, best first.
Hits(other, own) == [i \in 1..own |-> 0 - i] \o [i \in 1..other |-> i]

\* `hit.docid.split('#')[0]`: the parent document of a segment.
ParentDoc(segment_id) == IF segment_id < 0 THEN article_id ELSE "other"

\* `if hits[i].docid.split('#')[0] not in exclude_docids: results.append(...)`
SurvivingAll(hits, exclude) == hits
Surviving(hits, exclude) ==
    LET Kept(segment_id) == ParentDoc(segment_id) \notin Range(exclude)
    IN  SelectSeq(hits, Kept)

\* The surviving hits after the re-rank sort, best first, cut to 100.
Reranked(survivors) == Take(survivors, RerankKeep)

\* `for result in results[:self.selector_top_k]: top_segment_ids.append(...)`
TopSegmentIds(res) == Take(res, selector_top_k)

\* `provided_ids_set = set(top_segment_ids)` is evaluated right after
\* `top_segment_ids = []`, before the loop that fills the list, and the set
\* is never updated: it is the set of the empty list.
ProvidedIdsSet(top) == Range(<<>>)

\* The hallucination branch: `available_ids = [vid for vid in top_segment_ids
\* if vid not in validated_segment_ids]`, then its first element if any.
FallbackKeepsAnswer(top, validated, segment_id) == <<segment_id>>
Fallback(top, validated, segment_id) ==
    LET Unused(vid) == vid \notin Range(validated)
        available_ids == SelectSeq(top, Unused)
    IN  IF available_ids # <<>> THEN <<available_ids[1]>> ELSE <<>>

\* `for segment_id in llm_selected_segment_ids.segment_ids: ...`
RECURSIVE Validate(_, _, _, _)
Validate(answer, top, provided, validated) ==
    IF answer = <<>> THEN validated
    ELSE LET segment_id == Head(answer)
             kept == IF segment_id \in provided
                     THEN <<segment_id>>
                     ELSE Fallback(top, validated, segment_id)
         IN  Validate(Tail(answer), top, provided, validated \o kept)

\* `if not validated_segment_ids: validated_segment_ids = [top_segment_ids[0]]`
\* (with no candidate at all the index raises: see search).
EnsureOneSkipped(top, validated) == validated
EnsureOne(top, validated) ==
    IF validated = <<>> THEN <<top[1]>> ELSE validated

\* `for i, result in enumerate(results): if segment_id in validated: append`
SelectResults(res, validated) ==
    LET Chosen(id) == id \in Range(validated)
    IN  SelectSeq(res, Chosen)

\* What one call of search computes from the hits of the query and the
\* curator's answer: it raises IndexError on `top_segment_ids[0]` when
\* nothing was validated and there is no candidate, else it returns the
\* ranked candidates and the curated subset.
Search(hits, exclude, answer) ==
    LET res == Reranked(Surviving(hits, exclude))
        top == TopSegmentIds(res)
        validated == Validate(answer, top, ProvidedIdsSet(top), <<>>)
        raised == validated = <<>> /\ top = <<>>
        ensured == IF raised THEN validated ELSE EnsureOne(top, validated)
    IN  [raised |-> raised, results |-> res, top_segment_ids |-> top,
         validated_segment_ids |-> ensured,
         llm_selected_results |->
             IF raised THEN <<>> ELSE SelectResults(res, ensured)]

\* The state before one call of search as main makes it: the index and the
\* curator are external, so what they will answer is drawn here.  The hits
\* of the article's own document are dropped first whatever their number:
\* none is drawn here.
InitSearch ==
    /\ sr_pc = "idle"
    /\ sr_hits \in 0..MaxHits
    /\ sr_own = 0
    /\ exclude_docids = <<article_id>>
    /\ sr_curator \in {[raises |-> TRUE, answer |-> <<>>]}
                      \cup [raises : {FALSE}, answer : CuratorAnswers]
    /\ results = <<>> /\ top_segment_ids = <<>>
    /\ segment_ids = <<>> /\ validated_segment_ids = <<>>
    /\ llm_selected_results = <<>>
    /\ IdleLLM
    /\ IdleLoop
    /\ IdleReport
    /\ IdleCompress
    /\ IdleTruncate
    /\ IdleQuestions
    /\ IdleStore
    /\ IdleRanking
    /\ IdleChunking
    /\ IdleCleaning

\* One call of search whose curation call returned an answer.
search ==
    /\ sr_pc = "idle"
    /\ ~sr_curator.raises
    /\ LET out == Search(Hits(sr_hits, sr_own), exclude_docids,
                         sr_curator.answer)
       IN  /\ results' = out.results
           /\ top_segment_ids' = out.top_segment_ids
           /\ segment_ids' = sr_curator.answer
           /\ sr_pc' = IF out.raised THEN "raised" ELSE "returned"
           /\ validated_segment_ids' = out.validated_segment_ids
           /\ llm_selected_results' = out.llm_selected_results
    /\ UNCHANGED <<sr_hits, sr_own, exclude_docids, sr_curator>>
    /\ UNCHANGED notSr

\* One call of search whose curation call raised (generation failure).
search_curator_raises ==
    /\ sr_pc = "idle"
    /\ sr_curator.raises
    /\ results' = Reranked(Surviving(Hits(sr_hits, sr_own), exclude_docids))
    /\ top_segment_ids' =
           TopSegmentIds(Reranked(Surviving(Hits(sr_hits, sr_own), exclude_docids)))
    /\ sr_pc' = "raised"
    /\ UNCHANGED <<sr_hits, sr_own, exclude_docids, sr_curator, segment_ids,
                   validated_segment_ids, llm_selected_results>>
    /\ UNCHANGED notSr

NextSearch ==
    \/ search
    \/ search_curator_raises

SpecSearch == InitSearch /\ [][NextSearch]_vars

\* The exclusion lists and the curator answers explored where the exclusion
\* list varies: the curator may name a segment of the article itself.
ExcludeLists == {<<>>, <<article_id>>, <<"other">>, <<article_id, "other">>}
CuratorAnswersExclusion == SeqsUpTo({0, 1, 0 - 1}, MaxAnswerExclusion)

\* The state before one call of search with any exclusion list.
InitSearchExclusion ==
    /\ sr_pc = "idle"
    /\ sr_hits \in 0..MaxHits
    /\ sr_own \in 0..MaxOwnHits
    /\ exclude_docids \in ExcludeLists
    /\ sr_curator \in {[raises |-> TRUE, answer |-> <<>>]}
                      \cup [raises : {FALSE}, answer : CuratorAnswersExclusion]
    /\ results = <<>> /\ top_segment_ids = <<>>
    /\ segment_ids = <<>> /\ validated_segment_ids = <<>>
    /\ llm_selected_results = <<>>
    /\ IdleLLM
    /\ IdleLoop
    /\ IdleReport
    /\ IdleCompress
    /\ IdleTruncate
    /\ IdleQuestions
    /\ IdleStore
    /\ IdleRanking
    /\ IdleChunking
    /\ IdleCleaning

(***************************************************************************)
(* Claims about search                                                     *)
(***************************************************************************)

\* The candidates shown to the curator: the top selector_top_k of the
\* re-ranked list.
ShownSet == {results[i] : i \in 1..Min(Len(results), selector_top_k)}

\* C3: every segment of the curated subset is one of the candidates shown
\* to the curator, whatever the curator answered.
C3_CuratedWithinShown ==
    sr_pc = "returned" => Range(llm_selected_results) \subseteq ShownSet

\* A returned call whose curator named a ranked segment it was not shown
\* and an id of no segment.
C3_Witness ==
    /\ sr_pc = "returned"
    /\ Len(results) > selector_top_k
    /\ (selector_top_k + 1) \in Range(segment_ids)
    /\ 0 \in Range(segment_ids)
    /\ llm_selected_results # <<>>

\* C4: the curated subset has at most 3 segments, however many ids the
\* curator answered with.
C4_AtMostThree ==
    sr_pc = "returned" => Len(llm_selected_results) <= CuratedCap

\* What the validation loop alone leaves, before the at-least-one rule.
AfterValidation ==
    Validate(segment_ids, top_segment_ids, ProvidedIdsSet(top_segment_ids), <<>>)

\* C5: with at least one candidate, a call whose curator answered returns a
\* non-empty curated subset; when the answer is empty or nothing is left
\* after validation, it is exactly the top re-ranked candidate.
C5_NeverEmpty ==
    (sr_pc # "idle" /\ ~sr_curator.raises /\ sr_hits >= 1) =>
        /\ sr_pc = "returned"
        /\ llm_selected_results # <<>>
        /\ (segment_ids = <<>> \/ AfterValidation = <<>>) =>
               llm_selected_results = <<results[1]>>

\* The curator answered with the empty list while several candidates were
\* shown, and the top one was selected.
C5_Witness ==
    /\ sr_pc = "returned" /\ sr_hits >= 2 /\ ~sr_curator.raises
    /\ segment_ids = <<>>
    /\ llm_selected_results = <<results[1]>>

\* The positions of the curator's answer that name no shown candidate.
AbsentPositions == {i \in 1..Len(segment_ids) : segment_ids[i] \notin ShownSet}

\* The answer with the id at position i replaced by the highest-ranked shown
\* candidate not used before it (dropped if there is none).
Corrected(i) ==
    LET Unused(vid) == vid \notin {segment_ids[j] : j \in 1..(i - 1)}
        available == SelectSeq(top_segment_ids, Unused)
    IN  SubSeq(segment_ids, 1, i - 1)
        \o (IF available # <<>> THEN <<available[1]>> ELSE <<>>)
        \o SubSeq(segment_ids, i + 1, Len(segment_ids))

\* C6: when exactly one id of the answer is absent from the shown set, the
\* corrected subset replaces it by the highest-ranked unused candidate and
\* keeps the valid ids, in the curator's order.
C6_OneHallucinationReplaced ==
    (sr_pc = "returned" /\ Cardinality(AbsentPositions) = 1) =>
        LET i == CHOOSE j \in AbsentPositions : TRUE
        IN  /\ validated_segment_ids = Corrected(i)
            /\ Range(llm_selected_results) = Range(Corrected(i))

(***************************************************************************)
(* QueryGenerator.generate_query and the evidence loop of main             *)
(***************************************************************************)

\* max_query_iterations = 5 in main
max_query_iterations == 5

\* `if len(generated_queries) < 5: raise ValueError(...)`
RequiredQueries == 5

\* Largest number of queries in one schema-valid response.
MaxQueriesReturned == 6

\* The queries of round r, named by round and place in the response.
QueryList(r, n) == [i \in 1..n |-> [round |-> r, query |-> i]]

\* generate_query on a schema-valid response of n queries: the list as it
\* is, or an error when it has fewer than 5 (the ValueError is re-raised as
\* RuntimeError by the enclosing handler).
generate_query_padded(r, n) ==
    [raised |-> FALSE,
     queries |-> QueryList(r, IF n < RequiredQueries THEN RequiredQueries ELSE n)]
generate_query(r, n) ==
    IF n < RequiredQueries
    THEN [raised |-> TRUE, queries |-> <<>>]
    ELSE [raised |-> FALSE, queries |-> QueryList(r, n)]

\* `while iteration_counter < max_query_iterations + 1`
WhileConditionOneMore(ic) == ic < max_query_iterations + 2
WhileCondition(ic) == ic < max_query_iterations + 1

\* `if has_sufficient_information: break`
BreakNever(has_sufficient_information) == FALSE
Break(has_sufficient_information) == has_sufficient_information

\* The numbers of hits per query explored: from other documents, and from
\* the article's own.
LoopHitCounts == 0..2
LoopOwnCounts == 0..1

\* What the index and the curator answer during one run: how many hits a
\* query gets from other documents and from the article's own document, and
\* the curator's answer: a segment of the article itself, or two segments.
LoopAnswers == {<<0 - 1>>, <<1, 2>>}
LoopIndexes == [other : LoopHitCounts, own : LoopOwnCounts, answer : LoopAnswers]

\* The hits of query q, best first: the segments of other documents found in
\* round r are r, r + 1, ...
LoopHits(index, q) ==
    [i \in 1..index.own |-> 0 - i] \o [i \in 1..index.other |-> q.round + i - 1]

\* What all_llm_selected_segment_ids holds when an article starts: nothing,
\* or the ids selected for the article before.
LeftoverIds == {{}, {0 - 1, 100}}

\* `segment_retriever.search(query, article_json_str, [article_id])`
SearchExclusion == <<article_id>>

\* `query_retrieval_history[f'query_{1+len(query_retrieval_history)}'] = ...`
\* The history is the sequence whose n-th entry is the one under query_<n>.
HistoryKeyReused(history) == IF history = <<>> THEN 1 ELSE Len(history)
HistoryKey(history) == 1 + Len(history)
HistoryPut(history, key, entry) ==
    [k \in (DOMAIN history) \cup {key} |-> IF k = key THEN entry ELSE history[k]]

\* `all_llm_selected_segment_ids = set()`
FreshSetKept(previous) == previous
FreshSet(previous) == {}

\* `for iteration_num in range(1, iteration_counter)`
IterationRange(ic) == 1..(ic - 1)

\* `all_llm_selected_segment_ids.add(segment['segment_id'])` for every
\* curated segment of every query of every recorded round.
SelectedIds(start, tracking, ic) ==
    start \cup
    UNION {UNION {Range(tracking[r].queries[k].llm_selected_segments)
                  : k \in 1..Len(tracking[r].queries)}
           : r \in IterationRange(ic)}

\* reorganized_query_retrieval_data: the queries of rounds 1..n, in order,
\* under query_1, query_2, ...
RECURSIVE Reorganized(_, _)
Reorganized(tracking, n) ==
    IF n = 0 THEN <<>>
    ELSE Reorganized(tracking, n - 1) \o
         [k \in 1..Len(tracking[n].queries) |->
             [round |-> tracking[n].queries[k].round,
              query |-> tracking[n].queries[k].query,
              llm_selected_segments |->
                  tracking[n].queries[k].llm_selected_segments]]

\* `information_evaluation_reasoning = ''` before the loop; the reasoning
\* returned by the evaluation of round r is known by r.
EmptyReasoning == [round |-> 0]

\* A history passed to a call is recorded by the round and the query of each
\* of its entries, in order (the segments under an entry never change).
PassedHistory(history) ==
    [k \in 1..Len(history) |->
        [round |-> history[k].round, query |-> history[k].query]]

\* What main passes to generate_query: the article alone in round 1, else
\* also json.dumps(query_retrieval_history) and
\* information_evaluation_reasoning.
QueryGenerationArgsStale(ic, history, reasoning) ==
    IF ic = 1
    THEN [given |-> FALSE, history |-> <<>>, feedback |-> EmptyReasoning,
          held |-> Len(history)]
    ELSE [given |-> TRUE, history |-> PassedHistory(history),
          feedback |-> [round |-> 1],
          held |-> Len(history)]
QueryGenerationArgs(ic, history, reasoning) ==
    IF ic = 1
    THEN [given |-> FALSE, history |-> <<>>, feedback |-> EmptyReasoning,
          held |-> Len(history)]
    ELSE [given |-> TRUE, history |-> PassedHistory(history),
          feedback |-> reasoning,
          held |-> Len(history)]

\* What main passes to evaluate: json.dumps(query_retrieval_history).
EvaluationArgsRoundOnly(history, ic) ==
    LET OfRound(e) == e.round = ic
    IN  [given |-> TRUE, history |-> PassedHistory(SelectSeq(history, OfRound)),
         feedback |-> EmptyReasoning, held |-> Len(history)]
EvaluationArgs(history, ic) ==
    [given |-> TRUE, history |-> PassedHistory(history),
     feedback |-> EmptyReasoning,
     held |-> Len(history)]

\* search is passed no part of the history; held is the number of entries
\* the history has when the call is made.
SearchArgs(history) ==
    [given |-> FALSE, history |-> <<>>, feedback |-> EmptyReasoning,
     held |-> Len(history)]

InitLoop ==
    /\ lp_pc = "generate" /\ iteration_counter = 1 /\ queries = <<>>
    /\ q_done = 0 /\ iteration_data = <<>> /\ query_retrieval_history = <<>>
    /\ per_article_tracking_data = <<>> /\ lp_trace = <<>>
    /\ lp_index \in LoopIndexes
    /\ information_evaluation_reasoning = EmptyReasoning /\ lp_seen = <<>>
    /\ after_pc = "loop" /\ reorganized_query_retrieval_data = <<>>
    /\ main_all_llm_selected_segment_ids \in LeftoverIds
    /\ report_args = [called |-> FALSE, allowed |-> {}]
    /\ IdleLLM
    /\ IdleSearch
    /\ IdleReport
    /\ IdleCompress
    /\ IdleTruncate
    /\ IdleQuestions
    /\ IdleStore
    /\ IdleRanking
    /\ IdleChunking
    /\ IdleCleaning

\* What the loop and the steps after it leave alone.
afterVars == <<after_pc, reorganized_query_retrieval_data,
               main_all_llm_selected_segment_ids, report_args>>

\* A trace entry: the operation called, the round, whether the structured
\* generation behind it gave a schema-valid answer, whether the operation
\* raised, and the number of queries answered (generate) or the place of
\* the query in the round (search).
Call(op, answered, raised, n) ==
    [op |-> op, round |-> iteration_counter, answered |-> answered,
     raised |-> raised, n |-> n]

\* The trace entry of a search call, with the exclusion list it was passed.
SearchCall(answered, raised, n) ==
    [op |-> "search", round |-> iteration_counter, answered |-> answered,
     raised |-> raised, n |-> n, exclude |-> SearchExclusion]

\* Step 1 of a round: the structured call returned n queries.
generate_queries(n) ==
    /\ lp_seen' = Append(lp_seen, QueryGenerationArgs(iteration_counter,
                              query_retrieval_history,
                              information_evaluation_reasoning))
    /\ UNCHANGED information_evaluation_reasoning
    /\ lp_pc = "generate"
    /\ LET got == generate_query(iteration_counter, n)
       IN  /\ lp_trace' = Append(lp_trace, Call("generate", TRUE, got.raised, n))
           /\ IF got.raised
              THEN /\ lp_pc' = "crashed"
                   /\ UNCHANGED <<queries, q_done, iteration_data>>
              ELSE /\ lp_pc' = "retrieve"
                   /\ queries' = got.queries
                   /\ q_done' = 0
                   /\ iteration_data' = <<>>
    /\ UNCHANGED <<iteration_counter, query_retrieval_history,
                   per_article_tracking_data, lp_index, afterVars>>
    /\ UNCHANGED notLp

\* Step 1 of a round: the structured call itself raised.
generate_queries_fails ==
    /\ lp_seen' = Append(lp_seen, QueryGenerationArgs(iteration_counter,
                              query_retrieval_history,
                              information_evaluation_reasoning))
    /\ UNCHANGED information_evaluation_reasoning
    /\ lp_pc = "generate"
    /\ lp_trace' = Append(lp_trace, Call("generate", FALSE, TRUE, 0))
    /\ lp_pc' = "crashed"
    /\ UNCHANGED <<iteration_counter, queries, q_done, iteration_data,
                   query_retrieval_history, per_article_tracking_data,
                   lp_index, afterVars>>
    /\ UNCHANGED notLp

\* Step 2: search for the next query of the round, then record it in the
\* round's data and add it to the Retrieval History.
retrieve_query ==
    /\ lp_seen' = Append(lp_seen, SearchArgs(query_retrieval_history))
    /\ UNCHANGED information_evaluation_reasoning
    /\ lp_pc = "retrieve"
    /\ q_done < Len(queries)
    /\ LET q == queries[q_done + 1]
           out == Search(LoopHits(lp_index, q), SearchExclusion, lp_index.answer)
       IN  /\ ~out.raised
           /\ lp_trace' = Append(lp_trace, SearchCall(TRUE, FALSE, q_done + 1))
           /\ iteration_data' =
                  Append(iteration_data,
                         [round |-> q.round, query |-> q.query,
                          reranked_segments |-> out.results,
                          llm_selected_segments |-> out.llm_selected_results])
           /\ query_retrieval_history' =
                  HistoryPut(query_retrieval_history,
                             HistoryKey(query_retrieval_history),
                             [round |-> q.round, query |-> q.query,
                              retrieved_segments |-> out.llm_selected_results])
    /\ q_done' = q_done + 1
    /\ lp_pc' = IF q_done + 1 = Len(queries) THEN "evaluate" ELSE "retrieve"
    /\ UNCHANGED <<iteration_counter, queries, per_article_tracking_data,
                   lp_index, afterVars>>
    /\ UNCHANGED notLp

\* Step 2 when search raises, in the curation call or for want of any
\* candidate: nothing is recorded for the query.
retrieve_query_fails ==
    /\ lp_seen' = Append(lp_seen, SearchArgs(query_retrieval_history))
    /\ UNCHANGED information_evaluation_reasoning
    /\ lp_pc = "retrieve"
    /\ q_done < Len(queries)
    /\ lp_trace' = Append(lp_trace, SearchCall(FALSE, TRUE, q_done + 1))
    /\ lp_pc' = "crashed"
    /\ UNCHANGED <<iteration_counter, queries, q_done, iteration_data,
                   query_retrieval_history, per_article_tracking_data,
                   lp_index, afterVars>>
    /\ UNCHANGED notLp

\* Steps 3 and 4: evaluate, record the round, count it, and leave the loop
\* on a sufficient verdict or when the while condition fails.
evaluate(has_sufficient_information) ==
    /\ lp_seen' = Append(lp_seen, EvaluationArgs(query_retrieval_history,
                                                 iteration_counter))
    /\ information_evaluation_reasoning' = [round |-> iteration_counter]
    /\ lp_pc = "evaluate"
    /\ lp_trace' = Append(lp_trace, Call("evaluate", TRUE, FALSE, 0))
    /\ per_article_tracking_data' =
           Append(per_article_tracking_data,
                  [queries |-> iteration_data,
                   has_sufficient_information |-> has_sufficient_information])
    /\ iteration_counter' = iteration_counter + 1
    /\ lp_pc' = IF Break(has_sufficient_information) THEN "done"
                ELSE IF WhileCondition(iteration_counter + 1) THEN "generate"
                ELSE "done"
    /\ UNCHANGED <<queries, q_done, iteration_data, query_retrieval_history,
                   lp_index, afterVars>>
    /\ UNCHANGED notLp

\* Step 3 when the evaluation call raises.
evaluate_fails ==
    /\ lp_seen' = Append(lp_seen, EvaluationArgs(query_retrieval_history,
                                                 iteration_counter))
    /\ UNCHANGED information_evaluation_reasoning
    /\ lp_pc = "evaluate"
    /\ lp_trace' = Append(lp_trace, Call("evaluate", FALSE, TRUE, 0))
    /\ lp_pc' = "crashed"
    /\ UNCHANGED <<iteration_counter, queries, q_done, iteration_data,
                   query_retrieval_history, per_article_tracking_data,
                   lp_index, afterVars>>
    /\ UNCHANGED notLp

\* What the steps after the loop leave alone.
loopVars == <<lp_pc, iteration_counter, queries, q_done, iteration_data,
              query_retrieval_history, per_article_tracking_data, lp_trace,
              lp_index, information_evaluation_reasoning, lp_seen>>

\* After the loop: the recorded rounds are laid out for the two generation
\* steps and the allowed citation set is built from nothing.
prepare_inputs ==
    /\ lp_pc = "done"
    /\ after_pc = "loop"
    /\ reorganized_query_retrieval_data' =
           Reorganized(per_article_tracking_data, iteration_counter - 1)
    /\ main_all_llm_selected_segment_ids' =
           SelectedIds(FreshSet(main_all_llm_selected_segment_ids),
                       per_article_tracking_data, iteration_counter)
    /\ after_pc' = "prepared"
    /\ UNCHANGED <<loopVars, report_args>>
    /\ UNCHANGED notLp

\* Step 5: generate_questions returns, or raises.
generate_questions(raised) ==
    /\ after_pc = "prepared"
    /\ after_pc' = IF raised THEN "crashed" ELSE "asked"
    /\ UNCHANGED <<loopVars, reorganized_query_retrieval_data,
                   main_all_llm_selected_segment_ids, report_args>>
    /\ UNCHANGED notLp

\* Step 6: generate_report is called with the allowed set; it returns and
\* the article is recorded, or it raises.
generate_report(raised) ==
    /\ after_pc = "asked"
    /\ report_args' = [called |-> TRUE,
                       allowed |-> main_all_llm_selected_segment_ids]
    /\ after_pc' = IF raised THEN "crashed" ELSE "recorded"
    /\ UNCHANGED <<loopVars, reorganized_query_retrieval_data,
                   main_all_llm_selected_segment_ids>>
    /\ UNCHANGED notLp

NextLoop ==
    \/ \E n \in 0..MaxQueriesReturned : generate_queries(n)
    \/ generate_queries_fails
    \/ retrieve_query
    \/ retrieve_query_fails
    \/ \E verdict \in BOOLEAN : evaluate(verdict)
    \/ evaluate_fails
    \/ prepare_inputs
    \/ \E raised \in BOOLEAN : generate_questions(raised)
    \/ \E raised \in BOOLEAN : generate_report(raised)

SpecLoop == InitLoop /\ [][NextLoop]_vars

\* One article for which every query hits the most segments, and nothing is
\* left from the article before.
InitLoopFair ==
    /\ InitLoop
    /\ lp_index = [other |-> 2, own |-> 1, answer |-> <<1, 2>>]
    /\ main_all_llm_selected_segment_ids = {}

\* Every call main makes returns or raises, so main always takes its next
\* step.
SpecLoopFair == InitLoopFair /\ [][NextLoop]_vars /\ WF_vars(NextLoop)

\* One call of search with any exclusion list, or one article of main.
SpecExclusion ==
    (InitSearchExclusion \/ InitLoop) /\ [][NextSearch \/ NextLoop]_vars

(***************************************************************************)
(* Claims about the evidence loop                                          *)
(***************************************************************************)

Rounds == 1..Len(per_article_tracking_data)

\* The calls of the trace made by operation op in round r.
CallsOf(op, r) ==
    {i \in 1..Len(lp_trace) : lp_trace[i].op = op /\ lp_trace[i].round = r}

\* The Retrieval History entries appended in round r.
HistoryOf(r) ==
    {i \in 1..Len(query_retrieval_history) :
        query_retrieval_history[i].round = r}

\* C2: the loop runs at least 1 and at most max_iterations rounds, and no
\* call of a further round is made after the first sufficient verdict.
C2_RoundsBounded ==
    /\ \A i \in 1..Len(lp_trace) : lp_trace[i].round \in 1..max_query_iterations
    /\ Len(per_article_tracking_data) <= max_query_iterations
    /\ lp_pc = "done" => Len(per_article_tracking_data) >= 1
    /\ \A r \in Rounds :
          per_article_tracking_data[r].has_sufficient_information =>
              /\ r = Len(per_article_tracking_data)
              /\ lp_pc = "done"
              /\ lp_trace[Len(lp_trace)].op = "evaluate"
              /\ lp_trace[Len(lp_trace)].round = r

\* The loop left at round 2 on the first sufficient verdict.
C2_Witness ==
    /\ lp_pc = "done"
    /\ Len(per_article_tracking_data) = 2
    /\ ~per_article_tracking_data[1].has_sufficient_information
    /\ per_article_tracking_data[2].has_sufficient_information

\* The loop left at the round cap without a sufficient verdict.
C2_WitnessCap ==
    /\ lp_pc = "done"
    /\ Len(per_article_tracking_data) = max_query_iterations
    /\ \A r \in Rounds : ~per_article_tracking_data[r].has_sufficient_information

\* C7: every completed round records exactly 5 queries, in its tracking
\* data and as new Retrieval History entries.
C7_ExactlyFiveRecorded ==
    \A r \in Rounds :
        /\ Len(per_article_tracking_data[r].queries) = RequiredQueries
        /\ Cardinality(HistoryOf(r)) = RequiredQueries

\* C8: a response with fewer than 5 queries makes generate_query raise: the
\* run stops there, with no padded list, no retrieval call and no Retrieval
\* History entry for that round.
C8_TooFewQueriesRaises ==
    \A i \in 1..Len(lp_trace) :
        (/\ lp_trace[i].op = "generate" /\ lp_trace[i].answered
         /\ lp_trace[i].n < RequiredQueries) =>
            /\ lp_trace[i].raised
            /\ i = Len(lp_trace)
            /\ lp_pc = "crashed"
            /\ CallsOf("search", lp_trace[i].round) = {}
            /\ HistoryOf(lp_trace[i].round) = {}
            /\ \A q \in Range(queries) : q.round # lp_trace[i].round

\* Round 2 got 4 queries after a complete first round.
C8_Witness ==
    /\ lp_pc = "crashed"
    /\ Len(per_article_tracking_data) = 1
    /\ lp_trace[Len(lp_trace)] = [op |-> "generate", round |-> 2,
                                   answered |-> TRUE, raised |-> TRUE, n |-> 4]

\* The segment ids of a list that belong to a document of a list.
FromDocs(segs, docs) == {id \in Range(segs) : ParentDoc(id) \in Range(docs)}

\* The queries recorded so far for the article, of finished rounds and of
\* the current one.
RecordedQueries ==
    UNION {Range(per_article_tracking_data[r].queries) : r \in Rounds}
        \cup Range(iteration_data)

\* C18: no segment of either list returned by search has its parent document
\* in exclude_docids; main passes the article's own docid on every retrieval
\* call, so neither the recorded lists nor the allowed citation set given to
\* generate_report hold a segment of the article itself.
C18_ArticleExcluded ==
    /\ sr_pc = "returned" =>
          /\ FromDocs(results, exclude_docids) = {}
          /\ FromDocs(llm_selected_results, exclude_docids) = {}
    /\ \A i \in 1..Len(lp_trace) :
          lp_trace[i].op = "search" => lp_trace[i].exclude = <<article_id>>
    /\ \A q \in RecordedQueries :
          /\ FromDocs(q.reranked_segments, <<article_id>>) = {}
          /\ FromDocs(q.llm_selected_segments, <<article_id>>) = {}
    /\ report_args.called =>
          \A id \in report_args.allowed : ParentDoc(id) # article_id

\* The index returned a segment of the article and the curator named it;
\* search returned candidates of other documents only.
C18_Witness ==
    /\ sr_pc = "returned"
    /\ sr_own >= 1
    /\ article_id \in Range(exclude_docids)
    /\ (0 - 1) \in Range(segment_ids)
    /\ llm_selected_results # <<>>

\* Every query hit a segment of the article; generate_report was called with
\* a non-empty allowed set after the ids of an earlier article were left in
\* the variable.
C18_WitnessLoop ==
    /\ report_args.called
    /\ lp_index.own >= 1
    /\ report_args.allowed # {}

\* The ids of all curated subsets search returned for the article, as the
\* Retrieval History holds them.
CuratedSoFar ==
    UNION {Range(query_retrieval_history[k].retrieved_segments)
           : k \in 1..Len(query_retrieval_history)}

\* C19: the allowed citation set passed to generate_report is exactly the
\* union of the curated subsets search returned over every query of every
\* round of the article.
C19_AllowedIsUnionOfCurated ==
    report_args.called => report_args.allowed = CuratedSoFar

\* generate_report called after two rounds that curated different segments.
C19_Witness ==
    /\ report_args.called
    /\ Len(per_article_tracking_data) = 2
    /\ Cardinality(report_args.allowed) = 3
    /\ lp_index.own >= 1

\* The search calls of the trace that returned, in order.
RECURSIVE Returned(_)
Returned(n) ==
    IF n = 0 THEN <<>>
    ELSE Returned(n - 1) \o
             (IF lp_trace[n].op = "search" /\ ~lp_trace[n].raised
              THEN <<lp_trace[n]>> ELSE <<>>)

\* Entry n of the history is the n-th query processed.
HistoryInOrder ==
    LET done == Returned(Len(lp_trace))
    IN  /\ Len(query_retrieval_history) = Len(done)
        /\ \A k \in 1..Len(done) :
              /\ query_retrieval_history[k].round = done[k].round
              /\ query_retrieval_history[k].query = done[k].n

\* A step leaves every entry as it is, and adds one, under the next key,
\* exactly when it processes a query.
HistoryExtended ==
    /\ \A k \in 1..Len(query_retrieval_history) :
          /\ k <= Len(query_retrieval_history')
          /\ query_retrieval_history'[k] = query_retrieval_history[k]
    /\ IF Len(Returned(Len(lp_trace)))' = Len(Returned(Len(lp_trace))) + 1
       THEN Len(query_retrieval_history') = Len(query_retrieval_history) + 1
       ELSE query_retrieval_history' = query_retrieval_history

\* C20: the Retrieval History is append-only: each processed query adds one
\* entry under key query_(n+1), the keys are query_1..query_n in
\* query-generation order across rounds, and no step modifies, removes or
\* reorders an entry.
C20_HistoryAppendOnly ==
    /\ []HistoryInOrder
    /\ [][HistoryExtended]_vars

\* The history holds the five queries of round 1 and the first of round 2.
C20_Witness ==
    /\ Len(query_retrieval_history) = RequiredQueries + 1
    /\ query_retrieval_history[RequiredQueries + 1].round = 2
    /\ query_retrieval_history[RequiredQueries + 1].query = 1
    /\ query_retrieval_history[1].round = 1

\* The article stopped on an error raised by one of its calls.
Crashed == lp_pc = "crashed" \/ after_pc = "crashed"

\* All max_iterations rounds were recorded, none with a sufficient verdict.
CapWithoutVerdict ==
    /\ Len(per_article_tracking_data) = max_query_iterations
    /\ \A r \in Rounds : ~per_article_tracking_data[r].has_sufficient_information

\* What the two generation steps are given is the queries of all rounds, in
\* order, each with its curated segments.
EvidenceOfAllRounds ==
    /\ Len(reorganized_query_retrieval_data) = Len(query_retrieval_history)
    /\ \A k \in 1..Len(query_retrieval_history) :
          /\ reorganized_query_retrieval_data[k].round =
                 query_retrieval_history[k].round
          /\ reorganized_query_retrieval_data[k].query =
                 query_retrieval_history[k].query
          /\ reorganized_query_retrieval_data[k].llm_selected_segments =
                 query_retrieval_history[k].retrieved_segments
    /\ \A r \in Rounds : HistoryOf(r) # {}

\* C21: the article always reaches a terminal state, and unless a call
\* raises that state is the one after report generation; the round cap
\* without a sufficient verdict ends the loop without an error; question
\* generation and then report generation are given the evidence of all
\* rounds.
C21_LoopTerminates ==
    /\ <>(Crashed \/ after_pc = "recorded")
    /\ [](CapWithoutVerdict => (lp_pc = "done" /\ Len(lp_trace) > 0
                                 /\ ~lp_trace[Len(lp_trace)].raised))
    /\ [](after_pc \in {"prepared", "asked", "recorded"} => EvidenceOfAllRounds)
    /\ [](report_args.called => EvidenceOfAllRounds)
    /\ [][report_args'.called /\ ~report_args.called => after_pc = "asked"]_vars
    /\ (lp_pc = "done" /\ after_pc = "loop") ~> (after_pc \in {"asked", "crashed"})

\* Five rounds without a sufficient verdict, then both generation steps.
C21_Witness ==
    /\ CapWithoutVerdict
    /\ after_pc = "recorded"
    /\ report_args.called
    /\ Len(reorganized_query_retrieval_data) >= max_query_iterations * RequiredQueries

(***************************************************************************)
(* ReportGenerator.generate_report                                         *)
(***************************************************************************)

\* Most sentences in one single-pass or polished response.
MaxSentences == 2

\* Most sentences in one chunk response.
MaxChunkSentences == 1

\* Most chunks chunk_input yields.
MaxChunks == 2

\* "Each sentence must have at most 3 references" in the prompts.
CitationCap == 3

\* The segment ids a response may cite; the allowed set is all of them or
\* all but the last.
CitableIds == {"s1", "s2", "s3", "s4"}
AllowedSets == {CitableIds, CitableIds \ {"s4"}}

\* The sentences a response is made of, by their citation lists: none, one,
\* and four with the possibly disallowed id in the last place.
SentencePool ==
    {[citations |-> <<>>],
     [citations |-> <<"s1">>],
     [citations |-> <<"s1", "s2", "s3", "s4">>]}

\* The schema-valid Report responses of at most n sentences.
Reports(n) == SeqsUpTo(SentencePool, n)

\* `for citation in sentence.citations: if citation not in
\* all_llm_selected_segment_ids: raise ValueError` for every sentence,
\* in _generate_single_report, generate_chunk_report, polish_combined_report.
Unchecked(report, allowed) == TRUE
CitationsAllowed(report, allowed) ==
    \A i \in 1..Len(report) :
        \A j \in 1..Len(report[i].citations) :
            report[i].citations[j] \in allowed

SingleReportValid(report, allowed) == CitationsAllowed(report, allowed)
ChunkReportValid(report, allowed) == CitationsAllowed(report, allowed)
PolishedReportValid(report, allowed) == CitationsAllowed(report, allowed)

\* `for report in partial_reports: all_sentences.extend(report)`
RECURSIVE FlattenReversed(_)
FlattenReversed(reports) ==
    IF reports = <<>> THEN <<>>
    ELSE FlattenReversed(Tail(reports)) \o Head(reports)
RECURSIVE Flatten(_)
Flatten(reports) ==
    IF reports = <<>> THEN <<>> ELSE Head(reports) \o Flatten(Tail(reports))

InitReport ==
    /\ rp_pc = "primary"
    /\ all_llm_selected_segment_ids \in AllowedSets
    /\ chunks = 0 /\ chunk_i = 0 /\ partial_reports = <<>>
    /\ all_sentences = <<>> /\ final_report = <<>> /\ rp_calls = <<>>
    /\ IdleLLM
    /\ IdleSearch
    /\ IdleLoop
    /\ IdleCompress
    /\ IdleTruncate
    /\ IdleQuestions
    /\ IdleStore
    /\ IdleRanking
    /\ IdleChunking
    /\ IdleCleaning

\* The primary path succeeds: the validated report is returned.
single_report_returns(report) ==
    /\ rp_pc = "primary"
    /\ SingleReportValid(report, all_llm_selected_segment_ids)
    /\ rp_calls' = Append(rp_calls, [call |-> "single", outcome |-> "ok"])
    /\ final_report' = report
    /\ rp_pc' = "returned"
    /\ UNCHANGED <<all_llm_selected_segment_ids, chunks, chunk_i,
                   partial_reports, all_sentences>>
    /\ UNCHANGED notRp

\* After the primary path raised: chunk the input into n chunks; with no
\* chunk at all partial_reports stays empty and ValueError is raised.
StartFallback(n, why) ==
    /\ rp_calls' = Append(rp_calls, [call |-> "single", outcome |-> why])
    /\ chunks' = n
    /\ chunk_i' = 0
    /\ partial_reports' = <<>>
    /\ rp_pc' = IF n = 0 THEN "raised" ELSE "chunks"
    /\ UNCHANGED <<all_llm_selected_segment_ids, all_sentences, final_report>>
    /\ UNCHANGED notRp

\* The primary path raises in the structured generation call.
single_report_generation_fails(n) ==
    /\ rp_pc = "primary"
    /\ StartFallback(n, "generation")

\* The primary path raises on a citation outside the allowed set.
single_report_citation_fails(report, n) ==
    /\ rp_pc = "primary"
    /\ ~SingleReportValid(report, all_llm_selected_segment_ids)
    /\ StartFallback(n, "citation")

\* Where the chunk loop stands after chunk number i + 1 of n: the next
\* chunk whatever this one did, or out of the loop: `if not
\* partial_reports: raise ValueError`, else polish.
AfterChunkAborts(i, n, reports) ==
    IF reports = <<>> THEN "raised"
    ELSE IF i + 1 < n THEN "chunks" ELSE "polish"
AfterChunkPc(i, n, reports) ==
    IF i + 1 < n THEN "chunks"
    ELSE IF reports = <<>> THEN "raised" ELSE "polish"

\* After chunk number chunk_i + 1, whose report was kept (entry) or not.
AfterChunk(reports, entry) ==
    /\ chunk_i' = chunk_i + 1
    /\ partial_reports' = reports
    /\ rp_calls' = Append(rp_calls, entry)
    /\ rp_pc' = AfterChunkPc(chunk_i, chunks, reports)
    /\ UNCHANGED <<all_llm_selected_segment_ids, chunks, all_sentences,
                   final_report>>
    /\ UNCHANGED notRp

\* A chunk whose report validates is kept.
chunk_report_kept(report) ==
    /\ rp_pc = "chunks"
    /\ ChunkReportValid(report, all_llm_selected_segment_ids)
    /\ AfterChunk(Append(partial_reports, report),
                  [call |-> "chunk", outcome |-> "ok", report |-> report])

\* A chunk whose generation raises is skipped.
chunk_generation_fails ==
    /\ rp_pc = "chunks"
    /\ AfterChunk(partial_reports,
                  [call |-> "chunk", outcome |-> "generation"])

\* A chunk whose report cites outside the allowed set is skipped.
chunk_citation_fails(report) ==
    /\ rp_pc = "chunks"
    /\ ~ChunkReportValid(report, all_llm_selected_segment_ids)
    /\ AfterChunk(partial_reports,
                  [call |-> "chunk", outcome |-> "citation"])

\* The polishing pass: returns the validated polished report, or raises.
Polish(outcome, report) ==
    /\ all_sentences' = Flatten(partial_reports)
    /\ rp_calls' = Append(rp_calls, [call |-> "polish", outcome |-> outcome])
    /\ IF outcome = "ok"
       THEN rp_pc' = "returned" /\ final_report' = report
       ELSE rp_pc' = "raised" /\ UNCHANGED final_report
    /\ UNCHANGED <<all_llm_selected_segment_ids, chunks, chunk_i,
                   partial_reports>>
    /\ UNCHANGED notRp

polish_returns(report) ==
    /\ rp_pc = "polish"
    /\ PolishedReportValid(report, all_llm_selected_segment_ids)
    /\ Polish("ok", report)

polish_generation_fails ==
    /\ rp_pc = "polish"
    /\ Polish("generation", <<>>)

polish_citation_fails(report) ==
    /\ rp_pc = "polish"
    /\ ~PolishedReportValid(report, all_llm_selected_segment_ids)
    /\ Polish("citation", report)

NextReport ==
    \/ \E report \in Reports(MaxSentences) : single_report_returns(report)
    \/ \E n \in 0..MaxChunks : single_report_generation_fails(n)
    \/ \E report \in Reports(MaxSentences), n \in 0..MaxChunks :
           single_report_citation_fails(report, n)
    \/ \E report \in Reports(MaxChunkSentences) : chunk_report_kept(report)
    \/ chunk_generation_fails
    \/ \E report \in Reports(MaxChunkSentences) : chunk_citation_fails(report)
    \/ \E report \in Reports(MaxSentences) : polish_returns(report)
    \/ polish_generation_fails
    \/ \E report \in Reports(MaxSentences) : polish_citation_fails(report)

SpecReport == InitReport /\ [][NextReport]_vars

(***************************************************************************)
(* Claims about generate_report                                            *)
(***************************************************************************)

\* The ids cited anywhere in a report.
Cited(report) ==
    UNION {Range(report[i].citations) : i \in 1..Len(report)}

\* C1: every citation of every sentence of a returned report, primary or
\* fallback, is in the allowed set.
C1_CitationsAllowed ==
    rp_pc = "returned" => Cited(final_report) \subseteq all_llm_selected_segment_ids

\* A report with citations returned by the fallback path while one of the
\* citable ids was not allowed.
C1_Witness ==
    /\ rp_pc = "returned"
    /\ rp_calls[Len(rp_calls)].call = "polish"
    /\ Cited(final_report) # {}
    /\ all_llm_selected_segment_ids # CitableIds

\* A report with citations returned by the primary path.
C1_WitnessPrimary ==
    /\ rp_pc = "returned"
    /\ rp_calls = <<[call |-> "single", outcome |-> "ok"]>>
    /\ Cited(final_report) # {}
    /\ all_llm_selected_segment_ids # CitableIds

\* C11: a primary response with a citation outside the allowed set is fatal:
\* generate_report never returns a report from that call.
C11_PrimaryViolationFatal ==
    (rp_calls # <<>> /\ rp_calls[1] = [call |-> "single", outcome |-> "citation"])
        => rp_pc # "returned"

\* C12: every sentence of a returned report, primary or fallback, carries
\* at most 3 citations.
C12_AtMostThreeCitations ==
    rp_pc = "returned" =>
        \A i \in 1..Len(final_report) :
            Len(final_report[i].citations) <= CitationCap

\* The chunk and polish calls made so far.
ChunkCalls == {i \in 1..Len(rp_calls) : rp_calls[i].call = "chunk"}
PolishCalls == {i \in 1..Len(rp_calls) : rp_calls[i].call = "polish"}

\* C13: chunk and polish calls happen only after the primary path raised;
\* a failing chunk does not stop the chunks after it; and the fallback
\* raises exactly when no chunk succeeded or the polishing pass failed.
C13_FallbackSkipsFailedChunks ==
    /\ (rp_calls # <<>> /\ rp_calls[1].outcome = "ok") =>
            /\ Len(rp_calls) = 1
            /\ rp_pc = "returned"
    /\ (ChunkCalls \cup PolishCalls # {}) =>
            /\ rp_calls[1].call = "single"
            /\ rp_calls[1].outcome # "ok"
    /\ (Len(rp_calls) >= 1 /\ rp_calls[1].outcome # "ok"
          /\ rp_pc \in {"polish", "returned", "raised"}) =>
            /\ Cardinality(ChunkCalls) = chunks
            /\ rp_pc = "raised" <=>
                   \/ \A i \in ChunkCalls : rp_calls[i].outcome # "ok"
                   \/ \E i \in PolishCalls : rp_calls[i].outcome # "ok"
            /\ rp_pc = "returned" =>
                   \E i \in PolishCalls : rp_calls[i].outcome = "ok"

\* The first of two chunks failed, the second was still processed and its
\* report polished and returned.
C13_Witness ==
    /\ rp_pc = "returned"
    /\ chunks = 2
    /\ Len(rp_calls) = 4
    /\ rp_calls[2].outcome # "ok"
    /\ rp_calls[3].outcome = "ok"

\* Every chunk failed: the fallback raises without a polish call.
C13_WitnessAllFailed ==
    /\ rp_pc = "raised"
    /\ chunks = 2
    /\ Cardinality(ChunkCalls) = 2
    /\ PolishCalls = {}

\* The reports of the chunks that succeeded among calls 1..n, one after
\* the other in chunk order.
RECURSIVE SucceededSentences(_)
SucceededSentences(n) ==
    IF n = 0 THEN <<>>
    ELSE SucceededSentences(n - 1) \o
             (IF rp_calls[n].call = "chunk" /\ rp_calls[n].outcome = "ok"
              THEN rp_calls[n].report ELSE <<>>)

C14_WitnessOrder ==
    /\ PolishCalls # {}
    /\ Len(partial_reports) = 2
    /\ Len(all_sentences) = 2
    /\ all_sentences[1] # all_sentences[2]
    /\ all_sentences[1] = partial_reports[1][1]

(***************************************************************************)
(* produce_run.main: the compression loop of one article                   *)
(***************************************************************************)

\* Most recorded sentences of an article.
MaxRecorded == 2

\* Most sentences in one shorten_report response.
MaxReturned == 3

\* `if original_word_count > 250`, `if new_word_count <= 250`
WordLimit == 250

\* `for i in range(5)`
CompressionRounds == 5

\* A sentence is known by its number of words, len(sentence.split()), and
\* by the round that wrote it: 0 for a recorded sentence.
WordCounts == {125, 250, 251}
SentencesOf(round) == [words : WordCounts, round : {round}]

\* `sum(len(s.split()) for s in new_sentences)`
RECURSIVE WordCount(_)
WordCount(sents) ==
    IF sents = <<>> THEN 0 ELSE Head(sents).words + WordCount(Tail(sents))

\* `new_word_count <= 250`
WithinLimitNever(word_count) == FALSE
WithinLimitLoose(word_count) == word_count <= WordLimit + 1
WithinLimit(word_count) == word_count <= WordLimit

\* `new_sentences = sentences` on a mismatch or a RuntimeError
RevertSkipped(original, current) == current
Revert(original, current) == original

\* `responses.append({'text': new_sentences[i], 'citations':
\* article_data['report_generation'][f'sentence_{i+1}']['citations']})`
EmittedShifted(sents) ==
    [i \in 1..Len(sents) |-> [text |-> sents[i], citations |-> Len(sents) + 1 - i]]
Emitted(sents) == [i \in 1..Len(sents) |-> [text |-> sents[i], citations |-> i]]

InitCompress ==
    /\ cp_pc = "start"
    /\ sentences \in SeqsUpTo(SentencesOf(0), MaxRecorded)
    /\ new_sentences = <<>> /\ new_word_count = 0 /\ cp_i = 0
    /\ cp_log = <<>> /\ responses = <<>>
    /\ IdleLLM
    /\ IdleSearch
    /\ IdleLoop
    /\ IdleReport
    /\ IdleTruncate
    /\ IdleQuestions
    /\ IdleStore
    /\ IdleRanking
    /\ IdleChunking
    /\ IdleCleaning

\* The recorded sentences are read and counted; over the limit the loop is
\* entered, else they are kept as they are.
count_words ==
    /\ cp_pc = "start"
    /\ IF ~WithinLimit(WordCount(sentences))
       THEN /\ new_word_count' = WordCount(sentences)
            /\ cp_pc' = "loop"
       ELSE /\ new_word_count' = new_word_count
            /\ cp_pc' = "emit"
    /\ new_sentences' = sentences
    /\ cp_i' = 0
    /\ UNCHANGED <<sentences, cp_log, responses>>
    /\ UNCHANGED notCp

\* The loop has another round to run.
InRound ==
    /\ cp_pc = "loop"
    /\ cp_i < CompressionRounds
    /\ ~WithinLimit(new_word_count)

\* shorten_report returns as many sentences as were recorded.
shorten_returns(response) ==
    /\ InRound
    /\ Len(response) = Len(sentences)
    /\ new_sentences' = response
    /\ new_word_count' = WordCount(response)
    /\ cp_i' = cp_i + 1
    /\ cp_log' = Append(cp_log, [outcome |-> "ok",
                                 within |-> WordCount(response) <= WordLimit])
    /\ UNCHANGED <<cp_pc, sentences, responses>>
    /\ UNCHANGED notCp

\* shorten_report returns another number of sentences.
shorten_mismatch(response) ==
    /\ InRound
    /\ Len(response) # Len(sentences)
    /\ new_sentences' = Revert(sentences, response)
    /\ cp_log' = Append(cp_log, [outcome |-> "mismatch",
                                 within |-> WordCount(response) <= WordLimit])
    /\ cp_pc' = "assert"
    /\ UNCHANGED <<sentences, new_word_count, cp_i, responses>>
    /\ UNCHANGED notCp

\* shorten_report raises RuntimeError.
shorten_fails ==
    /\ InRound
    /\ new_sentences' = Revert(sentences, new_sentences)
    /\ cp_log' = Append(cp_log, [outcome |-> "failed", within |-> FALSE])
    /\ cp_pc' = "assert"
    /\ UNCHANGED <<sentences, new_word_count, cp_i, responses>>
    /\ UNCHANGED notCp

\* The loop ends: `if new_word_count <= 250: break`, or range(5) is used up.
leave_loop ==
    /\ cp_pc = "loop"
    /\ cp_i = CompressionRounds \/ WithinLimit(new_word_count)
    /\ cp_pc' = "assert"
    /\ UNCHANGED <<sentences, new_sentences, new_word_count, cp_i, cp_log,
                   responses>>
    /\ UNCHANGED notCp

\* `assert len(new_sentences) == len(sentences)` after the loop, then one
\* response per sentence of new_sentences.
emit ==
    /\ cp_pc \in {"assert", "emit"}
    /\ IF cp_pc = "assert" /\ Len(new_sentences) # Len(sentences)
       THEN cp_pc' = "crashed" /\ UNCHANGED responses
       ELSE cp_pc' = "emitted" /\ responses' = Emitted(new_sentences)
    /\ UNCHANGED <<sentences, new_sentences, new_word_count, cp_i, cp_log>>
    /\ UNCHANGED notCp

NextCompress ==
    \/ count_words
    \/ \E response \in SeqsUpTo(SentencesOf(cp_i + 1), MaxReturned) :
           shorten_returns(response)
    \/ \E response \in SeqsUpTo(SentencesOf(cp_i + 1), MaxReturned) :
           shorten_mismatch(response)
    \/ shorten_fails
    \/ leave_loop
    \/ emit

SpecCompress == InitCompress /\ [][NextCompress]_vars

\* Every step of the loop returns: shorten_report makes a bounded number
\* of attempts.
SpecCompressFair == SpecCompress /\ WF_vars(NextCompress)

(***************************************************************************)
(* Claims about the compression loop                                       *)
(***************************************************************************)

\* The texts emitted, in order.
EmittedTexts == [i \in 1..Len(responses) |-> responses[i].text]

\* The last shorten_report call did not give a usable result.
LastRoundAborted ==
    /\ cp_log # <<>>
    /\ cp_log[Len(cp_log)].outcome \in {"mismatch", "failed"}

\* C15: as many sentences are emitted as were recorded; a round with another
\* number of sentences, or a failed shorten call, ends the loop, and what is
\* emitted then is the recorded sentences themselves, not an earlier round's.
C15_RevertOnAbort ==
    /\ cp_pc # "crashed"
    /\ cp_pc = "emitted" => Len(responses) = Len(sentences)
    /\ \A k \in 1..(Len(cp_log) - 1) : cp_log[k].outcome = "ok"
    /\ LastRoundAborted =>
          /\ cp_pc \in {"assert", "emitted"}
          /\ new_sentences = sentences
          /\ cp_pc = "emitted" => EmittedTexts = sentences

\* A first round succeeded with other sentences, the second call failed:
\* the recorded sentences are emitted.
C15_Witness ==
    /\ cp_pc = "emitted"
    /\ Len(cp_log) = 2
    /\ cp_log[2].outcome = "failed"
    /\ Len(sentences) = 2
    /\ EmittedTexts = sentences

\* A second round returned one sentence too many.
C15_WitnessMismatch ==
    /\ cp_pc = "emitted"
    /\ Len(cp_log) = 2
    /\ cp_log[2].outcome = "mismatch"
    /\ EmittedTexts = sentences

\* No shorten call for a report within the limit, one to five otherwise,
\* none after a round whose result is within the limit.
ShortenCallsBounded ==
    /\ Len(cp_log) <= CompressionRounds
    /\ WordCount(sentences) <= WordLimit =>
          /\ cp_log = <<>>
          /\ cp_pc = "emitted" => EmittedTexts = sentences
    /\ (WordCount(sentences) > WordLimit
          /\ cp_pc \in {"assert", "emitted", "crashed"}) => Len(cp_log) >= 1
    /\ \A k \in 1..(Len(cp_log) - 1) : ~cp_log[k].within

\* C16: no shorten_report call when the recorded report has at most 250
\* words, between 1 and 5 otherwise, none after a round whose result has at
\* most 250 words; the loop always terminates.
C16_BoundedCompression ==
    /\ []ShortenCallsBounded
    /\ <>(cp_pc = "emitted")

\* All five rounds were used and the report is still over the limit.
C16_Witness ==
    /\ cp_pc = "emitted"
    /\ Len(cp_log) = CompressionRounds
    /\ new_word_count > WordLimit

\* The second round got the report within the limit and was the last.
C16_WitnessEarly ==
    /\ cp_pc = "emitted"
    /\ Len(cp_log) = 2
    /\ cp_log[2] = [outcome |-> "ok", within |-> TRUE]

\* A report of exactly 250 words is emitted without any call.
C16_WitnessAtLimit ==
    /\ cp_pc = "emitted"
    /\ WordCount(sentences) = WordLimit
    /\ cp_log = <<>>

(***************************************************************************)
(* SafeLLMClient._truncate_input                                           *)
(***************************************************************************)

\* Largest attempt argument explored.
MaxAttempt == 2

\* `max_chars = (max_tokens - 1500) * 4`
OutputReserve == 1500
CharsPerToken == 4

\* `user_chars = max(100, max_chars - system_chars)`
MinUserChars == 100

\* A text is the sequence of its characters; the characters of an input
\* text are numbered from 1, the characters of the marker are 0.
Text(n) == [i \in 1..n |-> i]
Marker == [i \in 1..26 |-> 0]

\* The lengths of the input texts and the max_tokens arguments explored:
\* budgets of -4, 0, 4, 60, 200 and 400 characters.
ContentLengths == {0, 3, 50, 101, 130}
TokenBudgets == {1499, 1500, 1501, 1515, 1550, 1600}

\* The message lists explored: system and user, user alone, and a second
\* user message after the first.
MessageLists ==
    UNION {{<<[role |-> "system", content |-> Text(s)],
              [role |-> "user", content |-> Text(u)]>>,
            <<[role |-> "user", content |-> Text(u)]>>,
            <<[role |-> "system", content |-> Text(s)],
              [role |-> "user", content |-> Text(u)],
              [role |-> "user", content |-> Text(3)]>>}
           : s \in ContentLengths, u \in ContentLengths}

Max(a, b) == IF a >= b THEN a ELSE b

\* Python's text[:k] and text[-k:], for any integer k.
PyPrefix(text, k) ==
    IF k >= 0 THEN SubSeq(text, 1, Min(k, Len(text)))
    ELSE SubSeq(text, 1, Max(Len(text) + k, 0))
PySuffix(text, k) ==
    IF k > 0 THEN SubSeq(text, Max(Len(text) - k, 0) + 1, Len(text))
    ELSE SubSeq(text, 1 - k, Len(text))

truncate_middle(text, max_chars) ==
    IF Len(text) <= max_chars THEN text
    ELSE LET keep_chars == max_chars \div 2
             start == PyPrefix(text, keep_chars)
             end == IF max_chars % 2 = 0 THEN PySuffix(text, keep_chars)
                    ELSE PySuffix(text, keep_chars + 1)
         IN  start \o Marker \o end

\* `next((m['content'] for m in messages if m['role'] == role), '')`
FirstContent(msgs, role) ==
    LET at == {i \in 1..Len(msgs) : msgs[i].role = role}
    IN  IF at = {} THEN <<>>
        ELSE msgs[CHOOSE i \in at : \A j \in at : i <= j].content

MaxChars(tokens) == (tokens - OutputReserve) * CharsPerToken

WithinBudget(msgs, tokens) ==
    Len(FirstContent(msgs, "system")) + Len(FirstContent(msgs, "user"))
        <= MaxChars(tokens)

\* The list built when the input is over the budget.
TruncatedMessages(msgs, tokens) ==
    LET max_chars == MaxChars(tokens)
        system_in == FirstContent(msgs, "system")
        user_in == FirstContent(msgs, "user")
        system_chars == Len(system_in)
        cut == system_chars > max_chars \div 2
        system_prompt == IF cut THEN truncate_middle(system_in, max_chars \div 2)
                         ELSE system_in
        user_chars == IF cut THEN max_chars - Len(system_prompt)
                      ELSE Max(MinUserChars, max_chars - system_chars)
    IN  <<[role |-> "system", content |-> system_prompt],
          [role |-> "user", content |-> truncate_middle(user_in, user_chars)]>>

truncate_input_eager(msgs, tokens, try) ==
    IF WithinBudget(msgs, tokens) THEN msgs
    ELSE TruncatedMessages(msgs, tokens)
truncate_input(msgs, tokens, try) ==
    IF try = 0 THEN msgs
    ELSE IF WithinBudget(msgs, tokens) THEN msgs
    ELSE TruncatedMessages(msgs, tokens)

InitTruncate ==
    /\ tr_pc = "called"
    /\ messages \in MessageLists
    /\ max_tokens \in TokenBudgets
    /\ tr_attempt \in 0..MaxAttempt
    /\ tr_result = <<>>
    /\ IdleLLM
    /\ IdleSearch
    /\ IdleLoop
    /\ IdleReport
    /\ IdleCompress
    /\ IdleQuestions
    /\ IdleStore
    /\ IdleRanking
    /\ IdleChunking
    /\ IdleCleaning

truncate_call ==
    /\ tr_pc = "called"
    /\ tr_result' = truncate_input(messages, max_tokens, tr_attempt)
    /\ tr_pc' = "returned"
    /\ UNCHANGED <<messages, max_tokens, tr_attempt>>
    /\ UNCHANGED notTr

NextTruncate == truncate_call

SpecTruncate == InitTruncate /\ [][NextTruncate]_vars

(***************************************************************************)
(* Claims about _truncate_input                                            *)
(***************************************************************************)

\* The combined length of the system and user content of the input is over
\* the character budget.
OverBudget ==
    Len(FirstContent(messages, "system")) + Len(FirstContent(messages, "user"))
        > (max_tokens - OutputReserve) * CharsPerToken

\* C17: _truncate_input returns its input unmodified on attempt 0, and on a
\* later attempt whenever system and user content fit the budget; it
\* modifies content only on attempt >= 1 over the budget.
C17_TruncateOnlyOnRetryOverBudget ==
    tr_pc = "returned" =>
        /\ tr_attempt = 0 => tr_result = messages
        /\ (tr_attempt >= 1 /\ ~OverBudget) => tr_result = messages
        /\ tr_result # messages => (tr_attempt >= 1 /\ OverBudget)

\* An input over the budget is returned as it is on attempt 0.
C17_Witness ==
    /\ tr_pc = "returned"
    /\ tr_attempt = 0
    /\ OverBudget
    /\ tr_result = messages

\* The same input is cut on a retry.
C17_WitnessCut ==
    /\ tr_pc = "returned"
    /\ tr_attempt >= 1
    /\ OverBudget
    /\ tr_result # messages
    /\ Len(FirstContent(tr_result, "user")) < Len(FirstContent(messages, "user"))

\* An input within the budget is returned as it is on a retry.
C17_WitnessWithin ==
    /\ tr_pc = "returned"
    /\ tr_attempt >= 1
    /\ ~OverBudget
    /\ Len(FirstContent(messages, "user")) > 0
    /\ tr_result = messages

(***************************************************************************)
(* QuestionGenerator.generate_questions                                    *)
(***************************************************************************)

\* Most questions in one schema-valid response.
MaxQuestions == 11

\* `if len(generated_questions) != 10`
QuestionCount == 10

\* `if len(question.question_text) > 300`
QuestionMaxChars == 300

\* A question is known by its place in the response and by
\* len(question.question_text): at the limit, or one character over.
QuestionLengths == {QuestionMaxChars, QuestionMaxChars + 1}
QuestionLists ==
    UNION {{[i \in 1..n |-> [place |-> i, chars |-> len[i]]]
            : len \in [1..n -> QuestionLengths]} : n \in 0..MaxQuestions}

\* What generate_questions makes of a schema-valid response: ValueError on
\* the first question over 300 characters, ValueError on a count other than
\* 10, else the questions as they came.
CheckedQuestionsLenient(questions) ==
    LET Short(q) == q.chars <= QuestionMaxChars
        kept == SelectSeq(questions, Short)
    IN  IF Len(kept) < QuestionCount
        THEN [raised |-> TRUE, questions |-> <<>>]
        ELSE [raised |-> FALSE, questions |-> Take(kept, QuestionCount)]
CheckedQuestions(questions) ==
    IF \E i \in 1..Len(questions) : questions[i].chars > QuestionMaxChars
    THEN [raised |-> TRUE, questions |-> <<>>]
    ELSE IF Len(questions) # QuestionCount
    THEN [raised |-> TRUE, questions |-> <<>>]
    ELSE [raised |-> FALSE, questions |-> questions]

\* The state before one call: the generation service is external, so what
\* it will answer is drawn here.
InitQuestions ==
    /\ qg_pc = "called"
    /\ qg_response \in {[raises |-> TRUE, questions |-> <<>>]}
                       \cup [raises : {FALSE}, questions : QuestionLists]
    /\ generated_questions = <<>>
    /\ IdleLLM
    /\ IdleSearch
    /\ IdleLoop
    /\ IdleReport
    /\ IdleCompress
    /\ IdleTruncate
    /\ IdleStore
    /\ IdleRanking
    /\ IdleChunking
    /\ IdleCleaning

\* The structured call returned a response.
questions_checked ==
    /\ qg_pc = "called"
    /\ ~qg_response.raises
    /\ LET out == CheckedQuestions(qg_response.questions)
       IN  /\ qg_pc' = IF out.raised THEN "raised" ELSE "returned"
           /\ generated_questions' = out.questions
    /\ UNCHANGED qg_response
    /\ UNCHANGED notQg

\* The structured call raised (RuntimeError from generate_structured_response).
questions_generation_fails ==
    /\ qg_pc = "called"
    /\ qg_response.raises
    /\ qg_pc' = "raised"
    /\ UNCHANGED <<qg_response, generated_questions>>
    /\ UNCHANGED notQg

NextQuestions ==
    \/ questions_checked
    \/ questions_generation_fails

SpecQuestions == InitQuestions /\ [][NextQuestions]_vars

(***************************************************************************)
(* Claims about generate_questions                                         *)
(***************************************************************************)

\* C22: generate_questions returns only lists of exactly 10 questions of at
\* most 300 characters each, the response as it came; a response with a
\* question over 300 characters or with another count raises, and nothing
\* is truncated, padded or dropped.
C22_TenQuestionsOrError ==
    /\ qg_pc = "returned" =>
          /\ Len(generated_questions) = 10
          /\ \A i \in 1..10 : generated_questions[i].chars <= 300
          /\ generated_questions = qg_response.questions
    /\ (qg_pc # "called" /\ ~qg_response.raises
          /\ (\/ Len(qg_response.questions) # 10
              \/ \E i \in 1..Len(qg_response.questions) :
                    qg_response.questions[i].chars > 300)) =>
          /\ qg_pc = "raised"
          /\ generated_questions = <<>>

\* Ten questions of exactly 300 characters are returned.
C22_Witness ==
    /\ qg_pc = "returned"
    /\ Len(generated_questions) = 10
    /\ \A i \in 1..10 : generated_questions[i].chars = 300

\* Eleven questions, one of them too long: an error, not the ten good ones.
C22_WitnessOneTooLong ==
    /\ qg_pc = "raised"
    /\ Len(qg_response.questions) = 11
    /\ Cardinality({i \in 1..11 : qg_response.questions[i].chars > 300}) = 1

\* Nine good questions: an error.
C22_WitnessNine ==
    /\ qg_pc = "raised"
    /\ Len(qg_response.questions) = 9
    /\ \A i \in 1..9 : qg_response.questions[i].chars <= 300

(***************************************************************************)
(* main: the tracking store over the articles of one or more invocations   *)
(***************************************************************************)

\* Number of articles in articles[4:].
MaxArticles == 3

\* Number of invocations of the driver explored.
MaxRuns == 2

\* The stages of an article that may raise; "none" when all returned.
Stages == {"query generation", "retrieval", "evaluation",
           "question generation", "report generation"}

\* `tracking_data[article_id] = per_article_tracking_data`: a dict is the
\* function from its keys to their values, the empty dict is <<>>.
SetItem(dict, key, value) ==
    [k \in (DOMAIN dict) \cup {key} |-> IF k = key THEN value ELSE dict[k]]

\* No stage is wrapped in try/except: lines 117-119 are reached only when
\* every stage of the article returned.
WriteReachedAlways(stage) == TRUE
WriteReached(stage) == stage = "none"

\* `tracking_data = {}` when the driver starts.
FreshTrackingData(store) == <<>>

\* The first invocation: no tracking_data.json yet.
InitStore ==
    /\ st_pc = "running"
    /\ st_run = 1
    /\ st_next = 1
    /\ tracking_data = FreshTrackingData(<<>>)
    /\ persisted_store = <<>>
    /\ st_log = <<>>
    /\ IdleLLM
    /\ IdleSearch
    /\ IdleLoop
    /\ IdleReport
    /\ IdleCompress
    /\ IdleTruncate
    /\ IdleQuestions
    /\ IdleRanking
    /\ IdleChunking
    /\ IdleCleaning

\* One article: its stages run; if all return, its entry is put in
\* tracking_data and the whole dict is dumped over the file; if one raises
\* the exception leaves main.
process_article(stage) ==
    /\ st_pc = "running"
    /\ st_next <= MaxArticles
    /\ st_log' = Append(st_log, [run |-> st_run, article |-> st_next,
                                 stage |-> stage])
    /\ IF WriteReached(stage)
       THEN /\ tracking_data' = SetItem(tracking_data, st_next, [run |-> st_run])
            /\ persisted_store' =
                   SetItem(tracking_data, st_next, [run |-> st_run])
       ELSE UNCHANGED <<tracking_data, persisted_store>>
    /\ IF stage = "none"
       THEN st_pc' = st_pc /\ st_next' = st_next + 1
       ELSE st_pc' = "crashed" /\ st_next' = st_next
    /\ UNCHANGED st_run
    /\ UNCHANGED notSt

\* The for loop is through.
finish ==
    /\ st_pc = "running"
    /\ st_next > MaxArticles
    /\ st_pc' = "finished"
    /\ UNCHANGED <<st_run, st_next, tracking_data, persisted_store, st_log>>
    /\ UNCHANGED notSt

\* The driver is started again after a crash.
rerun ==
    /\ st_pc = "crashed"
    /\ st_run < MaxRuns
    /\ st_run' = st_run + 1
    /\ st_next' = 1
    /\ tracking_data' = FreshTrackingData(persisted_store)
    /\ st_pc' = "running"
    /\ UNCHANGED <<persisted_store, st_log>>
    /\ UNCHANGED notSt

NextStore ==
    \/ \E stage \in Stages \cup {"none"} : process_article(stage)
    \/ finish
    \/ rerun

SpecStore == InitStore /\ [][NextStore]_vars

(***************************************************************************)
(* Claims about the tracking store                                         *)
(***************************************************************************)

\* The file as the articles completed among the first n processed leave it:
\* each completed article rewrites it with the entries of its invocation.
RECURSIVE StoreAfter(_)
StoreAfter(n) ==
    IF n = 0 THEN <<>>
    ELSE IF st_log[n].stage # "none" THEN StoreAfter(n - 1)
    ELSE LET mine == {k \in 1..n : /\ st_log[k].run = st_log[n].run
                                     /\ st_log[k].stage = "none"}
         IN  [a \in {st_log[k].article : k \in mine} |-> [run |-> st_log[n].run]]

\* C23: when a stage raises, the persisted store is as the last completed
\* article left it: no entry of this invocation for the failing article, and
\* the entries of the articles completed before it as they were written.
C23_FailureLeavesStore ==
    st_pc = "crashed" =>
        LET failed == st_log[Len(st_log)]
        IN  /\ failed.stage \in Stages
            /\ persisted_store = StoreAfter(Len(st_log) - 1)
            /\ failed.article \in DOMAIN persisted_store =>
                   persisted_store[failed.article].run < failed.run
            /\ \A a \in 1..(failed.article - 1) :
                   /\ a \in DOMAIN persisted_store
                   /\ persisted_store[a] = [run |-> failed.run]

\* The second article failed in report generation after the first was
\* recorded.
C23_Witness ==
    /\ st_pc = "crashed"
    /\ st_run = 1
    /\ st_log[Len(st_log)] = [run |-> 1, article |-> 2,
                              stage |-> "report generation"]
    /\ DOMAIN persisted_store = {1}

\* The articles recorded so far by any invocation.
RecordedArticles ==
    {st_log[k].article : k \in {i \in 1..Len(st_log) : st_log[i].stage = "none"}}

\* C24: every write keeps the article entries the persisted store held
\* before it, those of an earlier invocation that crashed included.
C24_StoreOnlyGrows ==
    RecordedArticles \subseteq DOMAIN persisted_store

(***************************************************************************)
(* SegmentRetriever.search with the re-rank scores                         *)
(***************************************************************************)

\* Largest number of hits of other documents in a scored call.
MaxScoredHits == 101

\* Largest multiplier and modulus of the scores the re-ranker gives.
MaxScoreStep == 3
MaxScoreModulus == 4

\* The numbers of hits explored: few, and around the cut at 100.
ScoredHitCounts == (0..2) \cup {RerankKeep, MaxScoredHits}

\* The re-ranker is external: the score it gives to the hit at place i of
\* the BM25 order is (a * i) % m, for every a and m drawn, so that scores
\* rise, fall, repeat and tie along the BM25 order.
RerankScores == [a : 0..MaxScoreStep, m : 1..MaxScoreModulus]
ScoreOf(scores, i) == (scores.a * i) % scores.m

\* What the curation call of a scored call may do.
ScoredCurators ==
    {[raises |-> TRUE, answer |-> <<>>],
     [raises |-> FALSE, answer |-> <<>>],
     [raises |-> FALSE, answer |-> <<2, 1>>]}

\* The results list after the first loop and the score loop: one entry per
\* hit whose parent document is not excluded, in BM25 order, with its BM25
\* rank (its place among all hits) and its re-rank score.
Scored(hits, exclude, scores) ==
    LET Kept(i) == ParentDoc(hits[i]) \notin Range(exclude)
        places == SelectSeq([i \in 1..Len(hits) |-> i], Kept)
    IN  [k \in 1..Len(places) |->
            [segment_id |-> hits[places[k]],
             bm25rm3_rank |-> places[k],
             rerank_score |-> ScoreOf(scores, places[k])]]

\* `results.sort(key=lambda x: x['rerank_score'], reverse=True)`: a stable
\* sort, so the entries come score by score from the highest down, those of
\* one score in the order they had.
SortByScoreSkipped(res) == res
SortByScore(res) ==
    LET RECURSIVE Buckets(_)
        Buckets(S) ==
            IF S = {} THEN <<>>
            ELSE LET top == CHOOSE s \in S : \A t \in S : t <= s
                     Has(r) == r.rerank_score = top
                 IN  SelectSeq(res, Has) \o Buckets(S \ {top})
    IN  Buckets({res[i].rerank_score : i \in 1..Len(res)})

\* `results[i]['reranker_rank'] = i + 1` for every i of enumerate(results).
WithRanks(res) ==
    [i \in 1..Len(res) |->
        [segment_id |-> res[i].segment_id,
         bm25rm3_rank |-> res[i].bm25rm3_rank,
         rerank_score |-> res[i].rerank_score,
         reranker_rank |-> i]]

\* One call of search from the scored hits to what it returns.
ScoredSearch(hits, exclude, scores, answer) ==
    LET ranked == Take(SortByScore(Scored(hits, exclude, scores)), RerankKeep)
        ids == [i \in 1..Len(ranked) |-> ranked[i].segment_id]
        top == TopSegmentIds(ids)
        validated == Validate(answer, top, ProvidedIdsSet(top), <<>>)
        raised == validated = <<>> /\ top = <<>>
        ensured == IF raised THEN validated ELSE EnsureOne(top, validated)
        Chosen(r) == r.segment_id \in Range(ensured)
    IN  [raised |-> raised,
         results |-> WithRanks(ranked),
         llm_selected_results |-> SelectSeq(WithRanks(ranked), Chosen)]

InitRanking ==
    /\ rk_pc = "idle"
    /\ rk_hits \in [other : ScoredHitCounts, own : 0..MaxOwnHits]
    /\ rk_scores \in RerankScores
    /\ rk_curator \in ScoredCurators
    /\ rk_results = <<>>
    /\ rk_selected = <<>>
    /\ IdleLLM
    /\ IdleSearch
    /\ IdleLoop
    /\ IdleReport
    /\ IdleCompress
    /\ IdleTruncate
    /\ IdleQuestions
    /\ IdleStore
    /\ IdleChunking
    /\ IdleCleaning

\* One call of search that returns both lists.
search_scored ==
    /\ rk_pc = "idle"
    /\ ~rk_curator.raises
    /\ LET out == ScoredSearch(Hits(rk_hits.other, rk_hits.own),
                               SearchExclusion, rk_scores, rk_curator.answer)
       IN  /\ ~out.raised
           /\ rk_results' = out.results
           /\ rk_selected' = out.llm_selected_results
    /\ rk_pc' = "returned"
    /\ UNCHANGED <<rk_hits, rk_scores, rk_curator>>
    /\ UNCHANGED notRk

\* One call of search that raises: the curation call failed, or nothing was
\* validated and there is no candidate; no list is returned.
search_scored_raises ==
    /\ rk_pc = "idle"
    /\ \/ rk_curator.raises
       \/ ScoredSearch(Hits(rk_hits.other, rk_hits.own), SearchExclusion,
                       rk_scores, rk_curator.answer).raised
    /\ rk_pc' = "raised"
    /\ UNCHANGED <<rk_hits, rk_scores, rk_curator, rk_results, rk_selected>>
    /\ UNCHANGED notRk

NextRanking ==
    \/ search_scored
    \/ search_scored_raises

SpecRanking == InitRanking /\ [][NextRanking]_vars

(***************************************************************************)
(* Claims about the ranked candidates                                      *)
(***************************************************************************)

\* C25: the ranked candidate list search returns is in non-increasing order
\* of re-rank score, has at most 100 segments, and its i-th element carries
\* reranker_rank = i.
C25_RankedList ==
    rk_pc = "returned" =>
        /\ Len(rk_results) <= 100
        /\ \A i \in 1..(Len(rk_results) - 1) :
               rk_results[i].rerank_score >= rk_results[i + 1].rerank_score
        /\ \A i \in 1..Len(rk_results) : rk_results[i].reranker_rank = i

\* More than 100 hits survived, the re-ranker disagreed with the BM25 order
\* and the list was cut at 100.
C25_Witness ==
    /\ rk_pc = "returned"
    /\ rk_hits.other > RerankKeep
    /\ Len(rk_results) = RerankKeep
    /\ rk_results[1].bm25rm3_rank > 1
    /\ rk_results[1].rerank_score > rk_results[RerankKeep].rerank_score

(***************************************************************************)
(* Claims about the validation of the curator's answer                     *)
(***************************************************************************)

\* C26: an id of the curator's answer is substituted only if it is absent
\* from the shown candidates: when the answer is at most 3 distinct ids, all
\* of them shown, the curated subset is exactly those ids.
C26_ShownIdsKept ==
    (/\ sr_pc = "returned"
     /\ segment_ids # <<>>
     /\ Len(segment_ids) <= CuratedCap
     /\ Cardinality(Range(segment_ids)) = Len(segment_ids)
     /\ Range(segment_ids) \subseteq ShownSet) =>
        /\ validated_segment_ids = segment_ids
        /\ Range(llm_selected_results) = Range(segment_ids)

(***************************************************************************)
(* Claims about the backoff and the terminal error of generate_structured  *)
(***************************************************************************)

\* The failed attempts that were not the last one allowed.
RetriedFailures ==
    {i \in 1..Len(gs_log) : /\ gs_log[i].outcome # "valid"
                            /\ gs_log[i].attempt < max_retries - 1}

\* C27: a failed attempt k < max_retries - 1 is followed by exactly one
\* sleep, of 2^k, whatever the kind of the failure; the last failed attempt
\* and a successful one are followed by none.
C27_OneSleepPerRetry ==
    /\ Len(gs_sleeps) = Cardinality(RetriedFailures)
    /\ \A i \in RetriedFailures :
           /\ gs_log[i].attempt = i - 1
           /\ gs_sleeps[i] = 2 ^ gs_log[i].attempt
    /\ gs_pc \in {"raised", "returned"} =>
           Len(gs_sleeps) = IF gs_log = <<>> THEN 0 ELSE Len(gs_log) - 1

\* Three attempts failed, one of each kind: two sleeps, of 1 and 2.
C27_Witness ==
    /\ gs_pc = "raised"
    /\ max_retries = 3
    /\ {gs_log[i].kind : i \in 1..Len(gs_log)} = FailureKinds
    /\ gs_sleeps = <<1, 2>>

\* Two failures, then a valid response: no sleep after the success.
C27_WitnessSuccess ==
    /\ gs_pc = "returned"
    /\ gs_result = "instance"
    /\ Len(gs_log) = 3
    /\ gs_sleeps = <<1, 2>>

\* What the RuntimeError that leaves generate_structured carries, by the
\* handler of the last failure.  The raise of the JSON handler and the raise
\* of the validation handler are inside the outer try: the outer handler
\* catches them and raises "Failed to generate after N attempts: {e}" with
\* their text.  The JSON handler's text ends with the cleaned content; the
\* validation handler's with the validation error; a failed call leaves only
\* the text of its exception.
TerminalError(kind) ==
    CASE kind = "json" ->
             [text |-> "Failed to generate",
              embeds |-> {"LLM failed to generate valid JSON", "cleaned_content"}]
      [] kind = "schema" ->
             [text |-> "Failed to generate",
              embeds |-> {"Failed to validate response with Pydantic",
                          "validation error"}]
      [] kind = "call" ->
             [text |-> "Failed to generate",
              embeds |-> {"exception of the call"}]

\* The error of a call that raised.
RaisedError == TerminalError(gs_log[Len(gs_log)].kind)

\* C28: whatever the kind of the last failure, the terminal error embeds
\* the last content received from the service (as received, or cleaned).
C28_ErrorEmbedsContent ==
    gs_pc = "raised" =>
        RaisedError.embeds \cap {"response_content", "cleaned_content"} # {}

(***************************************************************************)
(* Claims about the size of the truncated input                            *)
(***************************************************************************)

\* C29: on attempt >= 1 with input over the budget, the system and user
\* content returned are together at most (max_tokens - 1500) * 4 characters
\* long, and a system prompt no longer than half the budget is returned
\* unchanged.
C29_TruncatedFitsBudget ==
    (tr_pc = "returned" /\ tr_attempt >= 1 /\ OverBudget) =>
        /\ Len(FirstContent(tr_result, "system"))
               + Len(FirstContent(tr_result, "user"))
               <= (max_tokens - 1500) * 4
        /\ Len(FirstContent(messages, "system")) <= ((max_tokens - 1500) * 4) \div 2
               => FirstContent(tr_result, "system") = FirstContent(messages, "system")

\* The part of C29 about the system prompt alone.
C29_ShortSystemPromptKept ==
    (tr_pc = "returned" /\ tr_attempt >= 1 /\ OverBudget
        /\ Len(FirstContent(messages, "system")) <= ((max_tokens - 1500) * 4) \div 2) =>
        FirstContent(tr_result, "system") = FirstContent(messages, "system")

\* A budget of 200 characters: the system prompt of 101 is cut to 50 + 26 +
\* 50, the user content of 130 to 37 + 26 + 37, 226 characters together.
C29_MarkerOverflows ==
    /\ tr_pc = "returned" /\ tr_attempt >= 1
    /\ max_tokens = 1550
    /\ Len(FirstContent(messages, "system")) = 101
    /\ Len(FirstContent(messages, "user")) = 130
    /\ Len(FirstContent(tr_result, "system"))
           + Len(FirstContent(tr_result, "user")) = 226

(***************************************************************************)
(* ReportGenerator.chunk_input                                             *)
(***************************************************************************)

\* Most questions in the question dict.
MaxChunkQuestions == 4

\* `max_chunk_size: int = 5000`; generate_report passes no other value.
max_chunk_size == 5000

\* The serialized sizes of one question explored, and those of the evidence:
\* an empty dict ("{}"), and dicts below, near and over the ceiling.
QuestionSizes == {200, 1500, 2600}
SegmentsSizes == {2, 2000, 4900, 6000}

\* The questions are named by their place in the dict.
QuestionSizeLists == SeqsUpTo(QuestionSizes, MaxChunkQuestions)

\* `json.dumps(d, indent=2)` of a dict of several questions: "{\n", the
\* entries joined by ",\n", "\n}".  Each entry alone is serialized with the
\* 4 characters of the braces around it, so a dict of k >= 1 entries is
\* 2 * (k - 1) characters shorter than its entries serialized one by one.
RECURSIVE SumSizes(_, _)
SumSizes(sizes, ids) ==
    IF ids = <<>> THEN 0 ELSE sizes[Head(ids)] + SumSizes(sizes, Tail(ids))

SerializedSize(sizes, ids) ==
    IF ids = <<>> THEN 2 ELSE SumSizes(sizes, ids) - 2 * (Len(ids) - 1)

\* `if current_chunk_size + question_size + base_segments_size >
\* max_chunk_size and current_chunk_questions`
ChunkFullEvenEmpty(current_size, question_size, base, current) ==
    current_size + question_size + base > max_chunk_size
ChunkFull(current_size, question_size, base, current) ==
    current_size + question_size + base > max_chunk_size /\ current # <<>>

\* The loop over the questions from place i on, then the last chunk.
RECURSIVE ChunkLoop(_, _, _, _, _, _)
ChunkLoop(sizes, base, i, out, current, current_size) ==
    IF i > Len(sizes)
    THEN IF current # <<>> THEN Append(out, current) ELSE out
    ELSE IF ChunkFull(current_size, sizes[i], base, current)
         THEN ChunkLoop(sizes, base, i + 1, Append(out, current), <<i>>, sizes[i])
         ELSE ChunkLoop(sizes, base, i + 1, out, Append(current, i),
                        current_size + sizes[i])

\* The chunks returned: the questions of each, the whole evidence, the
\* chunk's number and the number of chunks.
chunk_input(sizes, base) ==
    LET out == ChunkLoop(sizes, base, 1, <<>>, <<>>, 0)
    IN  [c \in 1..Len(out) |->
            [questions |-> out[c], segments |-> base,
             chunk_id |-> c, total_chunks |-> Len(out)]]

InitChunking ==
    /\ ck_pc = "called"
    /\ question_sizes \in QuestionSizeLists
    /\ base_segments_size \in SegmentsSizes
    /\ ck_chunks = <<>>
    /\ IdleLLM
    /\ IdleSearch
    /\ IdleLoop
    /\ IdleReport
    /\ IdleCompress
    /\ IdleTruncate
    /\ IdleQuestions
    /\ IdleStore
    /\ IdleRanking
    /\ IdleCleaning

chunk_input_call ==
    /\ ck_pc = "called"
    /\ ck_chunks' = chunk_input(question_sizes, base_segments_size)
    /\ ck_pc' = "returned"
    /\ UNCHANGED <<question_sizes, base_segments_size>>
    /\ UNCHANGED notCk

NextChunking == chunk_input_call

SpecChunking == InitChunking /\ [][NextChunking]_vars

(***************************************************************************)
(* Claims about chunk_input                                                *)
(***************************************************************************)

\* C30: for every chunk returned, the serialized size of its questions plus
\* the serialized size of the whole evidence is at most max_chunk_size.
C30_ChunksWithinCeiling ==
    ck_pc = "returned" =>
        \A c \in 1..Len(ck_chunks) :
            SerializedSize(question_sizes, ck_chunks[c].questions)
                + base_segments_size <= 5000

\* The chunks partition the questions in order, whatever their sizes.
C30_ChunksPartitionQuestions ==
    ck_pc = "returned" =>
        /\ \A c \in 1..Len(ck_chunks) : ck_chunks[c].questions # <<>>
        /\ \A i \in 1..Len(question_sizes) :
               Cardinality({c \in 1..Len(ck_chunks) :
                               i \in Range(ck_chunks[c].questions)}) = 1

\* The evidence alone is over the ceiling: each question is a chunk of its
\* own, and each chunk is over the ceiling.
C30_EvidenceOverCeiling ==
    /\ ck_pc = "returned"
    /\ base_segments_size > 5000
    /\ Len(question_sizes) = 3
    /\ Len(ck_chunks) = 3

(***************************************************************************)
(* Claims about the rounds of the compression loop                         *)
(***************************************************************************)

\* C31: in every round whose result is accepted, each returned sentence has
\* fewer words than the sentence it replaces, and the word count of the
\* report strictly decreases.
C31_RoundsShorten ==
    [][(/\ Len(cp_log') = Len(cp_log) + 1
        /\ cp_log'[Len(cp_log')].outcome = "ok") =>
           /\ \A i \in 1..Len(new_sentences) :
                  new_sentences'[i].words < new_sentences[i].words
           /\ new_word_count' < new_word_count]_vars

(***************************************************************************)
(* Claims about what the rounds of the evidence loop are given             *)
(***************************************************************************)

\* The search calls that returned among the first n calls of the trace.
SearchesDoneBefore(n) ==
    {j \in 1..(n - 1) : lp_trace[j].op = "search" /\ ~lp_trace[j].raised}

\* The queries generated in round r (0 when the generation raised).
QueriesOfRound(r) ==
    LET g == CHOOSE j \in CallsOf("generate", r) : TRUE
    IN  IF lp_trace[g].raised THEN 0 ELSE lp_trace[g].n

\* C32: in each round the evaluation is called once, after the retrieval of
\* every query of the round was done and appended, with the whole history
\* of rounds 1 to the current one; the search of a query starts when the
\* entries of all queries before it are in the history.
C32_EvaluateWholeHistory ==
    /\ Len(lp_seen) = Len(lp_trace)
    /\ \A r \in 1..max_query_iterations : Cardinality(CallsOf("evaluate", r)) <= 1
    /\ \A r \in Rounds : Cardinality(CallsOf("evaluate", r)) = 1
    /\ \A i \in 1..Len(lp_trace) :
           /\ lp_trace[i].op = "evaluate" =>
                  LET r == lp_trace[i].round
                      done == {j \in SearchesDoneBefore(i) : lp_trace[j].round = r}
                  IN  /\ Cardinality(CallsOf("generate", r)) = 1
                      /\ Cardinality(done) = QueriesOfRound(r)
                      /\ {lp_trace[j].n : j \in done} = 1..QueriesOfRound(r)
                      /\ lp_seen[i].given
                      /\ Len(lp_seen[i].history) = Cardinality(SearchesDoneBefore(i))
                      /\ \A k \in 1..Len(lp_seen[i].history) :
                             /\ lp_seen[i].history[k].round
                                    = query_retrieval_history[k].round
                             /\ lp_seen[i].history[k].query
                                    = query_retrieval_history[k].query
                      /\ {lp_seen[i].history[k].round
                             : k \in 1..Len(lp_seen[i].history)} = 1..r
           /\ lp_trace[i].op = "search" =>
                  lp_seen[i].held = Cardinality(SearchesDoneBefore(i))

\* The evaluation of round 2 was given the entries of rounds 1 and 2.
C32_Witness ==
    /\ Len(lp_trace) > 0
    /\ lp_trace[Len(lp_trace)].op = "evaluate"
    /\ lp_trace[Len(lp_trace)].round = 2
    /\ ~lp_trace[Len(lp_trace)].raised
    /\ Len(lp_seen[Len(lp_seen)].history) >= 2 * RequiredQueries
    /\ lp_seen[Len(lp_seen)].history[1].round = 1

\* C33: the query generation of round 1 is given the article alone; that of
\* a round i > 1 is given the whole history of rounds 1 to i - 1 and the
\* reasoning returned by the evaluation of round i - 1.
C33_GenerationThreaded ==
    \A i \in 1..Len(lp_trace) :
        lp_trace[i].op = "generate" =>
            LET r == lp_trace[i].round
            IN  /\ r = 1 => (~lp_seen[i].given /\ lp_seen[i].history = <<>>
                             /\ lp_seen[i].feedback = [round |-> 0])
                /\ r > 1 =>
                      /\ lp_seen[i].given
                      /\ Len(lp_seen[i].history) = Cardinality(SearchesDoneBefore(i))
                      /\ \A k \in 1..Len(lp_seen[i].history) :
                             /\ lp_seen[i].history[k].round
                                    = query_retrieval_history[k].round
                             /\ lp_seen[i].history[k].query
                                    = query_retrieval_history[k].query
                      /\ {lp_seen[i].history[k].round
                             : k \in 1..Len(lp_seen[i].history)} = 1..(r - 1)
                      /\ lp_seen[i].feedback = [round |-> r - 1]

\* The query generation of round 3 was given the reasoning of round 2.
C33_Witness ==
    /\ Len(lp_trace) > 0
    /\ lp_trace[Len(lp_trace)].op = "generate"
    /\ lp_trace[Len(lp_trace)].round = 3
    /\ lp_seen[Len(lp_seen)].feedback = [round |-> 2]
    /\ Len(lp_seen[Len(lp_seen)].history) >= 2 * RequiredQueries

(***************************************************************************)
(* Claims about the configured round cap                                   *)
(***************************************************************************)

\* `max_query_iterations = 1` in class CONFIG.
CONFIG_max_query_iterations == 1

\* C36: the number of rounds executed for an article never exceeds
\* CONFIG.max_query_iterations.
C36_RoundsWithinConfig ==
    /\ Len(per_article_tracking_data) <= CONFIG_max_query_iterations
    /\ \A i \in 1..Len(lp_trace) : lp_trace[i].round <= CONFIG_max_query_iterations

(***************************************************************************)
(* InformationEvaluator.clean_retrieval_data                               *)
(***************************************************************************)

\* Most curated segments under one query of the history.
MaxCleanSegments == 2

\* The numbers of queries in the history explored.
CleanQueryCounts == 0..2

\* A text is its first 100 characters and what follows them (0: nothing).
\* The segments explored: two with the same URL and the same first 100
\* characters but another end, and two whose URL and first 100 characters
\* differ but give the same string when joined by "_".
CleanSegments ==
    {[url |-> <<"a">>, segment_text |-> [prefix |-> <<"a">>, rest |-> 0]],
     [url |-> <<"a">>, segment_text |-> [prefix |-> <<"a">>, rest |-> 1]],
     [url |-> <<"a">>, segment_text |-> [prefix |-> <<"_", "a">>, rest |-> 0]],
     [url |-> <<"a", "_">>, segment_text |-> [prefix |-> <<"a">>, rest |-> 0]]}

\* The histories main can pass: query_<k> holds query k, its rationale and
\* its curated segments.
CleanHistories ==
    UNION {[1..n -> SeqsUpTo(CleanSegments, MaxCleanSegments)] : n \in CleanQueryCounts}

HistoryEntry(k, segments) ==
    [query |-> k, rationale |-> k, retrieved_segments |-> segments]

\* `segment['segment_text'][:100]`
First100(text) == text.prefix

\* `f"{segment['url']}_{segment['segment_text'][:100]}"`
SegmentHashWholeText(segment) ==
    segment.url \o <<"_">> \o First100(segment.segment_text)
        \o <<segment.segment_text.rest>>
SegmentHash(segment) == segment.url \o <<"_">> \o First100(segment.segment_text)

\* The inner loop over the segments of query k from place j on: a segment
\* whose hash was not seen is kept with its text alone (`at` remembers the
\* place it had in the history).
RECURSIVE CleanSegmentsFrom(_, _, _, _, _)
CleanSegmentsFrom(segments, k, j, seen, kept) ==
    IF j > Len(segments) THEN [seen |-> seen, kept |-> kept]
    ELSE LET segment_hash == SegmentHash(segments[j])
         IN  IF segment_hash \notin seen
             THEN CleanSegmentsFrom(segments, k, j + 1, seen \cup {segment_hash},
                      Append(kept, [segment_text |-> segments[j].segment_text,
                                    at |-> <<k, j>>]))
             ELSE CleanSegmentsFrom(segments, k, j + 1, seen, kept)

\* The outer loop over the queries from k on: a query is put in the view
\* only if some segment of it was kept.
RECURSIVE CleanFrom(_, _, _, _)
CleanFrom(history, k, seen, cleaned_data) ==
    IF k > Len(history) THEN cleaned_data
    ELSE LET inner == CleanSegmentsFrom(history[k].retrieved_segments, k, 1,
                                        seen, <<>>)
             cleaned_query == [key |-> k, query |-> history[k].query,
                               retrieved_segments |-> inner.kept]
         IN  CleanFrom(history, k + 1, inner.seen,
                       IF inner.kept # <<>>
                       THEN Append(cleaned_data, cleaned_query)
                       ELSE cleaned_data)

clean_retrieval_data(history) == CleanFrom(history, 1, {}, <<>>)

InitCleaning ==
    /\ cl_pc = "called"
    /\ \E segments \in CleanHistories :
           cl_history = [k \in DOMAIN segments |-> HistoryEntry(k, segments[k])]
    /\ cl_view = <<>>
    /\ IdleLLM
    /\ IdleSearch
    /\ IdleLoop
    /\ IdleReport
    /\ IdleCompress
    /\ IdleTruncate
    /\ IdleQuestions
    /\ IdleStore
    /\ IdleRanking
    /\ IdleChunking

clean_call ==
    /\ cl_pc = "called"
    /\ cl_view' = clean_retrieval_data(cl_history)
    /\ cl_pc' = "returned"
    /\ UNCHANGED cl_history
    /\ UNCHANGED notCl

NextCleaning == clean_call

SpecCleaning == InitCleaning /\ [][NextCleaning]_vars

(***************************************************************************)
(* Claims about clean_retrieval_data                                       *)
(***************************************************************************)

\* The places <<k, j>> of the segments of the history, and those kept.
HistoryPlaces ==
    UNION {{<<k, j>> : j \in 1..Len(cl_history[k].retrieved_segments)}
           : k \in 1..Len(cl_history)}
KeptPlaces ==
    UNION {{cl_view[v].retrieved_segments[s].at
               : s \in 1..Len(cl_view[v].retrieved_segments)}
           : v \in 1..Len(cl_view)}
SegmentAt(p) == cl_history[p[1]].retrieved_segments[p[2]]

\* The key of a segment: its URL and the first 100 characters of its text.
KeyAt(p) == <<SegmentAt(p).url, SegmentAt(p).segment_text.prefix>>

\* Place p comes before place q in history order.
Before(p, q) == p[1] < q[1] \/ (p[1] = q[1] /\ p[2] < q[2])

\* C34: in the view each (URL, first 100 characters) key occurs at most
\* once, the occurrence kept is the first in history order, no rationale is
\* left, and a query none of whose segments is kept is not in the view.
C34_CleanedView ==
    cl_pc = "returned" =>
        /\ KeptPlaces \subseteq HistoryPlaces
        /\ \A p \in KeptPlaces : \A q \in KeptPlaces :
               KeyAt(p) = KeyAt(q) => p = q
        /\ \A p \in KeptPlaces : \A q \in HistoryPlaces :
               KeyAt(q) = KeyAt(p) => ~Before(q, p)
        /\ \A v \in 1..Len(cl_view) :
               /\ "rationale" \notin DOMAIN cl_view[v]
               /\ cl_view[v].query = cl_history[cl_view[v].key].query
               /\ cl_view[v].retrieved_segments # <<>>
               /\ \A s \in 1..Len(cl_view[v].retrieved_segments) :
                      LET kept == cl_view[v].retrieved_segments[s]
                      IN  /\ kept.at[1] = cl_view[v].key
                          /\ "rationale" \notin DOMAIN kept
                          /\ kept.segment_text = SegmentAt(kept.at).segment_text
        /\ \A v \in 1..Len(cl_view) : \A w \in 1..Len(cl_view) :
               v < w => cl_view[v].key < cl_view[w].key

\* The second query retrieved only a passage the first had retrieved, with
\* another end after its first 100 characters: it is left out of the view.
C34_Witness ==
    /\ cl_pc = "returned"
    /\ Len(cl_history) = 2
    /\ Len(cl_history[1].retrieved_segments) = 1
    /\ Len(cl_history[2].retrieved_segments) = 1
    /\ cl_history[2].retrieved_segments[1].segment_text.rest
           # cl_history[1].retrieved_segments[1].segment_text.rest
    /\ Len(cl_view) = 1
    /\ cl_view[1].key = 1

(***************************************************************************)
(* Claims about the model probe                                            *)
(***************************************************************************)

\* The attempts whose probe succeeded, and those whose probe raised.
ProbeSucceeded == {i \in 1..Len(gs_log) : gs_log[i].probed /\ gs_log[i].kind # "call"}
ProbeRaised == {i \in 1..Len(gs_log) : gs_log[i].probed /\ gs_log[i].kind = "call"}

\* C35: an empty response makes the client probe the model within the same
\* attempt, before the response is parsed, unless a probe has succeeded on
\* the client; after a probe succeeded the client never probes again; a
\* probe that raises is a failed attempt like any other: it is retried after
\* the backoff, or ends the call when it was the last attempt.
C35_ProbeOnEmptyMemoized ==
    /\ \A i \in 1..Len(gs_log) :
           /\ gs_log[i].probed => gs_log[i].outcome = "empty"
           /\ (gs_log[i].outcome = "empty" /\ ~gs_log[i].probed) =>
                  /\ working_model
                  /\ \/ \E j \in 1..(i - 1) : j \in ProbeSucceeded
                     \/ \A j \in 1..Len(gs_log) : ~gs_log[j].probed
                  /\ gs_log[i].kind \in {"json", "schema"}
    /\ \A j \in ProbeSucceeded :
           /\ working_model
           /\ \A i \in (j + 1)..Len(gs_log) : ~gs_log[i].probed
    /\ \A i \in ProbeRaised :
           IF gs_log[i].attempt = max_retries - 1
           THEN i = Len(gs_log) /\ gs_pc = "raised"
           ELSE /\ Len(gs_sleeps) >= i
                /\ gs_sleeps[i] = 2 ^ gs_log[i].attempt
                /\ attempt > gs_log[i].attempt

\* The probe raised on the first empty response, succeeded on the second,
\* and the third empty response was parsed without a probe.
C35_Witness ==
    /\ Len(gs_log) = 3
    /\ 1 \in ProbeRaised
    /\ 2 \in ProbeSucceeded
    /\ gs_log[3].outcome = "empty" /\ ~gs_log[3].probed

(***************************************************************************)
(* Claims about the partition made by chunk_input                          *)
(***************************************************************************)

\* The questions of all chunks, one chunk after the other.
RECURSIVE ChunkedQuestions(_)
ChunkedQuestions(n) ==
    IF n = 0 THEN <<>> ELSE ChunkedQuestions(n - 1) \o ck_chunks[n].questions

\* C37: the chunks partition the question list: every question is in
\* exactly one chunk, in the original order within and across chunks; no
\* chunk is empty; chunk_id runs 1..n in order, every total_chunks is n,
\* every chunk carries the whole evidence; no question gives no chunk.
C37_ChunksPartition ==
    ck_pc = "returned" =>
        /\ ChunkedQuestions(Len(ck_chunks)) = [i \in 1..Len(question_sizes) |-> i]
        /\ \A c \in 1..Len(ck_chunks) :
               /\ ck_chunks[c].questions # <<>>
               /\ ck_chunks[c].chunk_id = c
               /\ ck_chunks[c].total_chunks = Len(ck_chunks)
               /\ ck_chunks[c].segments = base_segments_size
        /\ question_sizes = <<>> => ck_chunks = <<>>

\* Four questions were cut into three chunks, the second of two questions.
C37_Witness ==
    /\ ck_pc = "returned"
    /\ Len(question_sizes) = 4
    /\ Len(ck_chunks) = 3
    /\ ck_chunks[2].questions = <<2, 3>>

\* No question: no chunk.
C37_WitnessEmpty ==
    ck_pc = "returned" /\ question_sizes = <<>> /\ ck_chunks = <<>>

(***************************************************************************)
(* Claims about what is emitted for an article                             *)
(***************************************************************************)

\* C38: the i-th response of an article carries the citations recorded for
\* sentence i, whether its text is the recorded one, a compressed one or
\* the recorded one after a revert; there is one response per recorded
\* sentence.
C38_CitationsByPlace ==
    cp_pc = "emitted" =>
        /\ Len(responses) = Len(sentences)
        /\ \A i \in 1..Len(responses) : responses[i].citations = i

\* Two sentences were compressed in two rounds and emitted.
C38_Witness ==
    /\ cp_pc = "emitted"
    /\ Len(sentences) = 2
    /\ Len(cp_log) = 2
    /\ cp_log[2].outcome = "ok"
    /\ responses[1].text.round = 2
    /\ responses[2].citations = 2

\* Two sentences were compressed once, then reverted, and emitted.
C38_WitnessReverted ==
    /\ cp_pc = "emitted"
    /\ Len(sentences) = 2
    /\ Len(cp_log) = 2
    /\ cp_log[2].outcome = "mismatch"
    /\ responses[2] = [text |-> sentences[2], citations |-> 2]

\* All rounds recorded so far were accepted.
AllRoundsAccepted == \A k \in 1..Len(cp_log) : cp_log[k].outcome = "ok"

\* C39: the emitted report has more than 250 words only if the loop
\* reverted to the recorded sentences or used all 5 rounds; no error is
\* raised in either case; after 5 accepted rounds still over 250 words what
\* is emitted is the output of the 5th round, not the recorded sentences.
C39_OverBudgetExits ==
    /\ cp_pc # "crashed"
    /\ cp_pc = "emitted" =>
          /\ WordCount(EmittedTexts) > 250 =>
                 \/ LastRoundAborted /\ EmittedTexts = sentences
                 \/ Len(cp_log) = 5 /\ AllRoundsAccepted
          /\ (Len(cp_log) = 5 /\ AllRoundsAccepted) =>
                 /\ EmittedTexts = new_sentences
                 /\ \A i \in 1..Len(EmittedTexts) : EmittedTexts[i].round = 5

\* Five rounds were accepted and the report emitted still has 502 words.
C39_Witness ==
    /\ cp_pc = "emitted"
    /\ Len(cp_log) = 5
    /\ AllRoundsAccepted
    /\ WordCount(EmittedTexts) = 502
    /\ EmittedTexts # sentences

\* The third call failed and the recorded sentences, over 250 words, were
\* emitted.
C39_WitnessReverted ==
    /\ cp_pc = "emitted"
    /\ Len(cp_log) = 3
    /\ cp_log[3].outcome = "failed"
    /\ WordCount(EmittedTexts) > 250

(***************************************************************************)
(* Claims about a search without candidates                                *)
(***************************************************************************)

\* C40: when no hit survives exclusion, search returns an empty ranked list
\* and an empty curated subset without raising, whatever the curator
\* answers.
C40_NoCandidatesReturnsEmpty ==
    (sr_pc \in {"returned", "raised"} /\ ~sr_curator.raises
        /\ Surviving(Hits(sr_hits, sr_own), exclude_docids) = <<>>) =>
        /\ sr_pc = "returned"
        /\ results = <<>>
        /\ llm_selected_results = <<>>

====
